---- MODULE Spec2Model ----
(***************************************************************************)
(* Model of the prescription pipeline of the repository:                   *)
(*   - pharma/backend/execute_query.py : prepare_unified,                  *)
(*     compare_brand_vs_generic, execute_query (label mapping of the two   *)
(*     wide tables and the call of the aggregator)                         *)
(*   - pharma/utils/loaders.py, app_streamlit.py : load_unified            *)
(*   - pharma/backend/db.py : AzureSQLConnection.execute_query             *)
(*   - pharma/pages/3_Brand_vs_Generic.py : load_long, the merge, aggregate *)
(*   - streamlit_app.py : load_data, and st.cache_data around both loaders *)
(*                                                                         *)
(* Text (codes, labels, CSV cells) is a sequence of one-character strings, *)
(* so that parsing (pd.to_numeric) and ordering are computed.  Column      *)
(* names are plain strings.  A DataFrame is [columns, data]: the column    *)
(* names in order (duplicates possible) and the rows, each a sequence of   *)
(* cells aligned with the columns.  Floating point columns hold Num        *)
(* records (finite rational, NaN, +inf, -inf).                             *)
(***************************************************************************)
EXTENDS Integers, Sequences, FiniteSets, TLC

VARIABLES
    unified_df,         \* execute_query: wide brand table (line 197)
    unified_df_gen,     \* execute_query: wide generic table (line 261)
    metrics,            \* what compare_brand_vs_generic returned (line 281)
    payload,            \* what execute_query returned (lines 288-292)
    src,                \* content of the CSV file read by load_unified
    key_col,            \* load_unified's key_col argument
    loaded,             \* what load_unified returned
    norm_metrics,       \* compare_brand_vs_generic applied to normalizer outputs
    db,                 \* how the two SELECTs of execute_query ended (db.py)
    sort_kind,          \* how the sort of the first run ordered its ties
    rerun,              \* what a second run on the same inputs returned
    facts,              \* execute_query: the rows a SELECT returned (line 166)
    conn,               \* db.py: the connections of AzureSQLConnection.execute_query
    files,              \* content of the CSV files the pages read
    cache,              \* the entries of st.cache_data
    served,             \* what the last run of a page computed
    pc                  \* position: which operation has run

vars == <<unified_df, unified_df_gen, metrics, payload, src, key_col, loaded,
          norm_metrics, db, sort_kind, rerun, facts, conn, files, cache, served, pc>>

(* the state of the prescription pipeline, and the state around it *)
pipeline_vars == <<unified_df, unified_df_gen, metrics, payload, src, key_col, loaded,
                   norm_metrics, db, sort_kind, rerun>>

page_vars == <<files, cache, served>>

----------------------------------------------------------------------------
(* Bounds of the input universe *)

MaxRows == 3        \* rows of the brand table plus rows of the generic table
MaxSeg == 2         \* number of distinct (BEN_REG, sexe, age) segments
MaxBoxes == 1       \* largest box count of an enumerated wide row
MaxChars == 2       \* characters typed in the numeric cells of a CSV file
MaxCalls == 3       \* calls of AzureSQLConnection.execute_query in a run

----------------------------------------------------------------------------
(* Generic helpers *)

Contains(s, x) == \E i \in 1..Len(s) : s[i] = x

RECURSIVE SumSeq(_)
SumSeq(s) == IF s = <<>> THEN 0 ELSE Head(s) + SumSeq(Tail(s))

RECURSIVE Flatten(_)
Flatten(ss) == IF ss = <<>> THEN <<>> ELSE Head(ss) \o Flatten(Tail(ss))

Abs(n) == IF n < 0 THEN -n ELSE n

RECURSIVE Gcd(_, _)
Gcd(a, b) == IF b = 0 THEN a ELSE Gcd(b, a % b)

(* Code point order of the characters that occur in codes and labels *)
Alphabet == <<"-", "0", "1", "2", "3", "4", "5", "6", "7", "8", "9",
              "A", "B", "F", "G", "M", "N", "P", "X", "Y", "x">>

Ord(c) == CHOOSE i \in 1..Len(Alphabet) : Alphabet[i] = c

(* Python's str < str *)
RECURSIVE StrLess(_, _)
StrLess(s, t) ==
    IF t = <<>> THEN FALSE
    ELSE IF s = <<>> THEN TRUE
    ELSE IF Head(s) = Head(t) THEN StrLess(Tail(s), Tail(t))
    ELSE Ord(Head(s)) < Ord(Head(t))

(* Python's tuple < tuple for tuples of str (group keys) *)
RECURSIVE KeyLess(_, _)
KeyLess(k, l) ==
    IF l = <<>> THEN FALSE
    ELSE IF k = <<>> THEN TRUE
    ELSE IF Head(k) = Head(l) THEN KeyLess(Tail(k), Tail(l))
    ELSE StrLess(Head(k), Head(l))

----------------------------------------------------------------------------
(* float64 values as pandas produces them *)

Fin(n) == [k |-> "fin", n |-> n, d |-> 1]
NaN == [k |-> "nan", n |-> 0, d |-> 1]
PosInf == [k |-> "inf", n |-> 0, d |-> 1]
NegInf == [k |-> "ninf", n |-> 0, d |-> 1]

(* Series + Series on integral floats *)
NumAdd(x, y) ==
    IF x.k = "fin" /\ y.k = "fin" THEN Fin(x.n + y.n) ELSE NaN

(* Series / Series on integral floats: x/0 is +-inf, 0/0 is NaN *)
NumDiv(x, y) ==
    IF x.k # "fin" \/ y.k # "fin" THEN NaN
    ELSE IF y.n = 0
         THEN IF x.n = 0 THEN NaN ELSE IF x.n > 0 THEN PosInf ELSE NegInf
    ELSE LET g == Gcd(Abs(x.n), Abs(y.n))
             s == IF y.n < 0 THEN -1 ELSE 1
         IN  [k |-> "fin", n |-> (s * x.n) \div g, d |-> (s * y.n) \div g]

(* x < y on non-NaN floats *)
NumLess(x, y) ==
    CASE x.k = "ninf" -> y.k # "ninf"
      [] x.k = "inf" -> FALSE
      [] OTHER -> CASE y.k = "ninf" -> FALSE
                    [] y.k = "inf" -> TRUE
                    [] OTHER -> x.n * y.d < y.n * x.d

(* a fill that leaves the missing value in place *)
FillNa0_keep(x) == x

(* .fillna(0) on one cell *)
FillNa0(x) == IF x.k = "nan" THEN Fin(0) ELSE x

----------------------------------------------------------------------------
(* DataFrames *)

NoDF == [columns |-> <<>>, data |-> <<>>]

HasCol(df, c) == Contains(df.columns, c)

ColIdx(df, c) == CHOOSE i \in 1..Len(df.columns) :
                    /\ df.columns[i] = c
                    /\ \A j \in 1..(i - 1) : df.columns[j] # c

Cell(df, r, c) == df.data[r][ColIdx(df, c)]

(* df.rename(columns={old: new}) *)
RenameCol(df, old, new) ==
    [df EXCEPT !.columns = [i \in 1..Len(df.columns) |->
                               IF df.columns[i] = old THEN new ELSE df.columns[i]]]

(* df[c] = v, c a new column, the same value in every row *)
AddConstCol(df, c, v) ==
    [columns |-> Append(df.columns, c),
     data |-> [r \in 1..Len(df.data) |-> Append(df.data[r], v)]]

----------------------------------------------------------------------------
(* Lookup maps (load_maps): Key -> Value of the mapping CSVs.  Two region  *)
(* codes share a label, and so do the prescriber codes A and C; region    *)
(* "3", age "60", prescriber B... have no label.                           *)

region_map == (<<"1">> :> <<"N">>) @@ (<<"2">> :> <<"N">>) @@ (<<"5">> :> <<"P">>)
sex_map == (<<"1">> :> <<"M">>) @@ (<<"2">> :> <<"F">>)
age_map == (<<"2", "0">> :> <<"A">>)
presc_map == ("A" :> "GP") @@ ("C" :> "GP") @@ ("1" :> "GP")
cpi_map == (<<"1">> :> <<"M">>)

(* a lookup that never finds the code *)
MapGet_code(m, code) == code

(* map with fallback to the code: s.map(m).fillna(s), m.get(x, x) *)
MapGet(m, code) == IF code \in DOMAIN m THEN m[code] ELSE code

----------------------------------------------------------------------------
(* prepare_unified *)

NoPrepared == [raised |-> "KeyError", df |-> NoDF]

(* a version that lets a table without product code through *)
prepare_unified_lenient(df, product_type) ==
    [raised |-> "",
     df |-> AddConstCol(RenameCol(RenameCol(df, "CIP13", "product_code"),
                                  "GEN_NUM", "product_code"),
                        "product_type", product_type)]

(* a version without the GEN_NUM branch *)
prepare_unified_cip_only(df, product_type) ==
    IF HasCol(df, "CIP13")
    THEN [raised |-> "",
          df |-> AddConstCol(RenameCol(df, "CIP13", "product_code"),
                             "product_type", product_type)]
    ELSE NoPrepared

prepare_unified(df, product_type) ==
    IF HasCol(df, "CIP13")
    THEN [raised |-> "",
          df |-> AddConstCol(RenameCol(df, "CIP13", "product_code"),
                             "product_type", product_type)]
    ELSE IF HasCol(df, "GEN_NUM")
    THEN [raised |-> "",
          df |-> AddConstCol(RenameCol(df, "GEN_NUM", "product_code"),
                             "product_type", product_type)]
    ELSE NoPrepared

----------------------------------------------------------------------------
(* pandas operations used by compare_brand_vs_generic *)

SegCols == <<"BEN_REG", "sexe", "age">>

SegKey(df, r) == <<Cell(df, r, "BEN_REG"), Cell(df, r, "sexe"), Cell(df, r, "age")>>

(* code point order of the prescriber codes (column names) *)
PrescriberOrder == <<"", "1", "2", "A", "B", "C", "GP">>

NameLess(a, b) ==
    (CHOOSE i \in 1..Len(PrescriberOrder) : PrescriberOrder[i] = a)
        < (CHOOSE i \in 1..Len(PrescriberOrder) : PrescriberOrder[i] = b)

(* a merge key: the segment, and the prescriber code for the four-column *)
(* key of the prescriber merge ("" for the three-column key)              *)
MergeKey(seg, psp) == [seg |-> seg, psp |-> psp]

(* order of the (BEN_REG, sexe, age[, PSP_SPE]) keys *)
MergeKeyLess(k, l) ==
    \/ KeyLess(k.seg, l.seg)
    \/ k.seg = l.seg /\ NameLess(k.psp, l.psp)

(* the keys of a set in ascending order *)
SortKeys(S) ==
    LET rank == [k \in S |-> Cardinality({l \in S : MergeKeyLess(l, k)})]
    IN  [p \in 1..Cardinality(S) |-> CHOOSE k \in S : rank[k] = p - 1]

(* the labels of a set in ascending order *)
SortLabels(S) ==
    LET rank == [k \in S |-> Cardinality({l \in S : StrLess(l, k)})]
    IN  [p \in 1..Cardinality(S) |-> CHOOSE k \in S : rank[k] = p - 1]

(* the rows of a sequence whose key is k, in order *)
RowsOf(rows, k) == SelectSeq(rows, LAMBDA x : x.key = k)

(* a grouping that keeps the first row of each key instead of the sum *)
GroupTotals_first(df) ==
    LET rows == [r \in 1..Len(df.data) |->
                    [key |-> MergeKey(SegKey(df, r), ""),
                     val |-> Cell(df, r, "total_boites")]]
        keys == SortKeys({rows[r].key : r \in 1..Len(rows)})
    IN  [i \in 1..Len(keys) |->
            [key |-> keys[i], val |-> RowsOf(rows, keys[i])[1].val]]

(* df.groupby(SegCols, as_index=False).agg(sum of total_boites):          *)
(* one row per key, keys ascending                                         *)
GroupTotals(df) ==
    LET rows == [r \in 1..Len(df.data) |->
                    [key |-> MergeKey(SegKey(df, r), ""),
                     val |-> Cell(df, r, "total_boites")]]
        keys == SortKeys({rows[r].key : r \in 1..Len(rows)})
    IN  [i \in 1..Len(keys) |->
            LET g == RowsOf(rows, keys[i])
            IN  [key |-> keys[i],
                 val |-> SumSeq([j \in 1..Len(g) |-> g[j].val])]]

(* the rows pd.merge(how=...) yields for one key: the product of the      *)
(* matching rows, a missing side being NaN                                 *)
MergeKeyRows(L, R, k, how) ==
    IF L # <<>> /\ R # <<>>
    THEN Flatten([i \in 1..Len(L) |->
                    [j \in 1..Len(R) |->
                        [key |-> k, l |-> Fin(L[i].val), r |-> Fin(R[j].val)]]])
    ELSE IF how = "inner" THEN <<>>
    ELSE IF L # <<>>
    THEN [i \in 1..Len(L) |-> [key |-> k, l |-> Fin(L[i].val), r |-> NaN]]
    ELSE [j \in 1..Len(R) |-> [key |-> k, l |-> NaN, r |-> Fin(R[j].val)]]

(* pd.merge(left, right, on=key, how='outer'): keys ascending *)
Merge(left, right, how) ==
    LET keys == SortKeys({left[i].key : i \in 1..Len(left)}
                            \cup {right[i].key : i \in 1..Len(right)})
    IN  Flatten([i \in 1..Len(keys) |->
                    MergeKeyRows(RowsOf(left, keys[i]), RowsOf(right, keys[i]),
                                 keys[i], how)])

(* a merge that keeps only the keys of both sides *)
MergeHow_inner == "inner"

(* how= of the merges at lines 56 and 109-113 *)
MergeHow == "outer"

(* does row x come before row y when sorting by brand_share ascending,    *)
(* NaN last; i, j are their positions before the sort.  Equal shares are   *)
(* left in either order by the default (unstable) quicksort.               *)
ShareBefore(x, i, y, j, tie) ==
    IF x.k = "nan" \/ y.k = "nan"
    THEN IF x.k = "nan" /\ y.k = "nan" THEN i < j ELSE y.k = "nan"
    ELSE IF NumLess(x, y) THEN TRUE
    ELSE IF NumLess(y, x) THEN FALSE
    ELSE IF tie = "keep" THEN i < j ELSE j < i

(* df.sort_values('brand_share') *)
SortValues(rows, tie) ==
    LET rank == [i \in 1..Len(rows) |->
                    Cardinality({j \in 1..Len(rows) : j # i /\
                        ShareBefore(rows[j].brand_share, j,
                                    rows[i].brand_share, i, tie)})]
    IN  [p \in 1..Len(rows) |-> rows[CHOOSE i \in 1..Len(rows) : rank[i] = p - 1]]

(* df.melt(id_vars=SegCols, value_vars=cols): column by column *)
Melt(df, cols) ==
    Flatten([c \in 1..Len(cols) |->
                [r \in 1..Len(df.data) |->
                    [key |-> MergeKey(SegKey(df, r), cols[c]),
                     val |-> Cell(df, r, cols[c])]]])

NonPrescriberCols == {"BEN_REG", "sexe", "age", "product_code", "total_boites",
                      "product_type"}

PrescriberColsOf(df) == SelectSeq(df.columns, LAMBDA c : c \notin NonPrescriberCols)

----------------------------------------------------------------------------
(* compare_brand_vs_generic *)

(* an aggregation that takes the last row of a group *)
NumSum_last(s) == IF s = <<>> THEN Fin(0) ELSE s[Len(s)]

(* an aggregation that takes the first row of a group *)
NumSum_first(s) == IF s = <<>> THEN Fin(0) ELSE Head(s)

(* .agg(sum) of a float column *)
RECURSIVE NumSum(_)
NumSum(s) == IF s = <<>> THEN Fin(0) ELSE NumAdd(Head(s), NumSum(Tail(s)))

(* lines 56-58 and 113-115: fillna(0), combined_total, brand_share *)
(* a total that counts the brand side twice *)
CombinedTotal_twice(b, g) == NumAdd(b, b)

CombinedTotal(b, g) == NumAdd(b, g)

BrandShare(b, c) == NumDiv(b, c)

(* lines 56-58: the rows of the merged table m *)
SegmentRows(m) ==
    [i \in 1..Len(m) |->
        LET b == FillNa0(m[i].l)
            g == FillNa0(m[i].r)
            c == CombinedTotal(b, g)
        IN  [key |-> m[i].key, brand_total |-> b, generic_total |-> g,
             combined_total |-> c, brand_share |-> BrandShare(b, c)]]

(* lines 53-59: the segment table, still keyed by the codes *)
SegmentMerge(brand, generic, tie) ==
    SortValues(SegmentRows(Merge(GroupTotals(brand), GroupTotals(generic), MergeHow)),
               tie)

(* lines 62-65: labels added, code columns dropped *)
SegmentLabels(seg) ==
    [i \in 1..Len(seg) |->
        [brand_total |-> seg[i].brand_total,
         generic_total |-> seg[i].generic_total,
         combined_total |-> seg[i].combined_total,
         brand_share |-> seg[i].brand_share,
         Region |-> MapGet(region_map, seg[i].key.seg[1]),
         Sex |-> MapGet(sex_map, seg[i].key.seg[2]),
         Age |-> MapGet(age_map, seg[i].key.seg[3])]]

(* a segment row's label of one dimension *)
LabelOf(row, dim) ==
    CASE dim = "Region" -> row.Region
      [] dim = "Age" -> row.Age
      [] dim = "Sex" -> row.Sex

(* a rollup whose brand_share is taken from the first segment row of the  *)
(* label instead of being recomputed                                       *)
Summary_first_share(seg, dim, tie) ==
    LET labels == SortLabels({LabelOf(seg[i], dim) : i \in 1..Len(seg)})
        rows == [n \in 1..Len(labels) |->
                    LET g == SelectSeq(seg, LAMBDA x : LabelOf(x, dim) = labels[n])
                        b == NumSum([j \in 1..Len(g) |-> g[j].brand_total])
                        e == NumSum([j \in 1..Len(g) |-> g[j].generic_total])
                    IN  [label |-> labels[n], brand_total |-> b,
                         generic_total |-> e, combined_total |-> CombinedTotal(b, e),
                         brand_share |-> g[1].brand_share]]
    IN  SortValues(rows, tie)

(* lines 68-90: seg.groupby(dim).agg(sums), combined_total, brand_share,  *)
(* sort_values; the label column is called label here                      *)
Summary(seg, dim, tie) ==
    LET labels == SortLabels({LabelOf(seg[i], dim) : i \in 1..Len(seg)})
        rows == [n \in 1..Len(labels) |->
                    LET g == SelectSeq(seg, LAMBDA x : LabelOf(x, dim) = labels[n])
                        b == NumSum([j \in 1..Len(g) |-> g[j].brand_total])
                        e == NumSum([j \in 1..Len(g) |-> g[j].generic_total])
                        c == CombinedTotal(b, e)
                    IN  [label |-> labels[n], brand_total |-> b,
                         generic_total |-> e, combined_total |-> c,
                         brand_share |-> BrandShare(b, c)]]
    IN  SortValues(rows, tie)

(* lines 113-115: the rows of the merged prescriber table m *)
PrescriberRows(m) ==
    [i \in 1..Len(m) |->
        LET b == FillNa0(m[i].l)
            g == FillNa0(m[i].r)
            c == CombinedTotal(b, g)
        IN  [key |-> m[i].key, brand_boites |-> b, generic_boites |-> g,
             combined_total |-> c, brand_share |-> BrandShare(b, c)]]

(* lines 118-123: labels added, code columns dropped *)
PrescriberLabels(sorted) ==
    [i \in 1..Len(sorted) |->
        [brand_boites |-> sorted[i].brand_boites,
         generic_boites |-> sorted[i].generic_boites,
         combined_total |-> sorted[i].combined_total,
         brand_share |-> sorted[i].brand_share,
         Region |-> MapGet(region_map, sorted[i].key.seg[1]),
         Sex |-> MapGet(sex_map, sorted[i].key.seg[2]),
         Age |-> MapGet(age_map, sorted[i].key.seg[3]),
         Prescriber |-> MapGet(presc_map, sorted[i].key.psp)]]

(* lines 93-123: the prescriber table *)
PrescriberComparison(brand, generic, tie) ==
    PrescriberLabels(
        SortValues(
            PrescriberRows(Merge(Melt(brand, PrescriberColsOf(brand)),
                                 Melt(generic, PrescriberColsOf(generic)),
                                 MergeHow)),
            tie))

NoMetrics(raised) ==
    [raised |-> raised, segment_comparison |-> <<>>, region_summary |-> <<>>,
     age_summary |-> <<>>, gender_summary |-> <<>>, prescriber_comparison |-> <<>>]

(* the columns the groupby and the melt read; a missing one is a KeyError *)
GroupedCols == {"BEN_REG", "sexe", "age", "total_boites"}

(* lines 67-131: the five tables, seg being segment_comparison *)
MetricsOf(seg, brand, generic, tie) ==
    [raised |-> "",
     segment_comparison |-> seg,
     region_summary |-> Summary(seg, "Region", tie),
     age_summary |-> Summary(seg, "Age", tie),
     gender_summary |-> Summary(seg, "Sex", tie),
     prescriber_comparison |-> PrescriberComparison(brand, generic, tie)]

compare_brand_vs_generic(brand_df, generic_df, tie) ==
    LET brand == prepare_unified(brand_df, "brand")
        generic == prepare_unified(generic_df, "generic")
    IN  IF brand.raised # "" \/ generic.raised # "" THEN NoMetrics("KeyError")
        ELSE IF \E c \in GroupedCols : ~HasCol(brand.df, c) \/ ~HasCol(generic.df, c)
        THEN NoMetrics("KeyError")
        ELSE MetricsOf(SegmentLabels(SegmentMerge(brand.df, generic.df, tie)),
                       brand.df, generic.df, tie)

----------------------------------------------------------------------------
(* More DataFrame operations *)

(* df[c] = values, c a new column *)
AddCol(df, c, values) ==
    [columns |-> Append(df.columns, c),
     data |-> [r \in 1..Len(df.data) |-> Append(df.data[r], values[r])]]

(* df[c] = values, c an existing column *)
SetCol(df, c, values) ==
    [df EXCEPT !.data = [r \in 1..Len(df.data) |->
                            [df.data[r] EXCEPT ![ColIdx(df, c)] = values[r]]]]

(* df.drop(columns=cols, errors="ignore"): every column so named goes *)
DropCols(df, cols) ==
    LET idx == SelectSeq([i \in 1..Len(df.columns) |-> i],
                         LAMBDA i : df.columns[i] \notin cols)
    IN  [columns |-> [n \in 1..Len(idx) |-> df.columns[idx[n]]],
         data |-> [r \in 1..Len(df.data) |->
                      [n \in 1..Len(idx) |-> df.data[r][idx[n]]]]]

(* a rename that keeps one column per name, the first *)
RenamePrescribers_merged(df, cols) ==
    LET names == [i \in 1..Len(df.columns) |->
                     IF Contains(cols, df.columns[i])
                     THEN MapGet(presc_map, df.columns[i])
                     ELSE df.columns[i]]
        idx == SelectSeq([i \in 1..Len(names) |-> i],
                         LAMBDA i : \A j \in 1..(i - 1) : names[j] # names[i])
    IN  [columns |-> [n \in 1..Len(idx) |-> names[idx[n]]],
         data |-> [r \in 1..Len(df.data) |->
                      [n \in 1..Len(idx) |-> df.data[r][idx[n]]]]]

(* df.rename(columns={c: presc_map.get(c, c) for c in cols}) *)
RenamePrescribers(df, cols) ==
    [df EXCEPT !.columns = [i \in 1..Len(df.columns) |->
                               IF Contains(cols, df.columns[i])
                               THEN MapGet(presc_map, df.columns[i])
                               ELSE df.columns[i]]]

(* df.to_dict(orient='records'): one dict per row; of several columns of  *)
(* one name the last one is kept                                           *)
ToRecords(df) ==
    [r \in 1..Len(df.data) |->
        [c \in {df.columns[i] : i \in 1..Len(df.columns)} |->
            df.data[r][CHOOSE i \in 1..Len(df.columns) :
                          /\ df.columns[i] = c
                          /\ \A j \in (i + 1)..Len(df.columns) : df.columns[j] # c]]]

----------------------------------------------------------------------------
(* execute_query, from the two wide tables on (lines 199-292) *)

RawCodesBrand == {"BEN_REG", "sexe", "age", "CIP13"}

RawCodesGeneric == {"BEN_REG", "sexe", "age", "GEN_NUM"}

core_cols == {"BEN_REG", "sexe", "age", "CIP13", "Region", "Sex", "Age",
              "Medication", "total_boites"}

core_cols_gen == {"BEN_REG", "sexe", "age", "GEN_NUM", "Region", "Sex", "Age",
                  "Generic", "total_boites"}

(* lines 200-206, 264-270: the three demographic label columns *)
WithDemographics(df) ==
    LET rows == 1..Len(df.data)
        d1 == AddCol(df, "Region",
                     [r \in rows |-> MapGet(region_map, Cell(df, r, "BEN_REG"))])
        d2 == AddCol(d1, "Sex", [r \in rows |-> MapGet(sex_map, Cell(df, r, "sexe"))])
    IN  AddCol(d2, "Age", [r \in rows |-> MapGet(age_map, Cell(df, r, "age"))])

(* lines 200-214 *)
unified_df_mapped(df) ==
    LET d3 == WithDemographics(df)
        d4 == AddCol(d3, "Medication",
                     [r \in 1..Len(df.data) |-> MapGet(cpi_map, Cell(df, r, "CIP13"))])
        presc_cols == SelectSeq(d4.columns, LAMBDA c : c \notin core_cols)
    IN  DropCols(RenamePrescribers(d4, presc_cols), RawCodesBrand)

(* lines 264-278 *)
unified_df_gen_mapped(df) ==
    LET d3 == WithDemographics(df)
        d4 == AddCol(d3, "Generic", [r \in 1..Len(df.data) |-> Cell(df, r, "GEN_NUM")])
        presc_cols_gen == SelectSeq(d4.columns, LAMBDA c : c \notin core_cols_gen)
    IN  DropCols(RenamePrescribers(d4, presc_cols_gen), RawCodesGeneric)

(* .replace({pd.NA: None, pd.NaT: None, float('nan'): None}) on a cell *)
None == [k |-> "none", n |-> 0, d |-> 1]

ReplaceNaN(x) == IF x.k = "nan" THEN None ELSE x

FloatFields == {"brand_total", "generic_total", "brand_boites", "generic_boites",
                "combined_total", "brand_share"}

(* line 286 on one table of the metrics *)
MetricsRecords(rows) ==
    [i \in 1..Len(rows) |->
        [f \in DOMAIN rows[i] |->
            IF f \in FloatFields THEN ReplaceNaN(rows[i][f]) ELSE rows[i][f]]]

(* MetricsRecord of main.py (lines 79-83): the fields without default, all *)
(* of type float                                                           *)
MetricsRecordRequired == {"brand_total", "generic_total", "combined_total",
                          "brand_share"}

(* the validation of one record against MetricsRecord: every required     *)
(* field is there and is a number, None being none                         *)
ValidMetricsRecord(rec) ==
    \A f \in MetricsRecordRequired : f \in DOMAIN rec /\ rec[f].k # "none"

NoPayload == [raised |-> "none", unified_df |-> <<>>, unified_df_gen |-> <<>>,
              metrics |-> NoMetrics("none")]

(* lines 284-292 *)
Payload(brand, generic, m) ==
    [raised |-> m.raised,
     unified_df |-> IF m.raised = "" THEN ToRecords(unified_df_mapped(brand)) ELSE <<>>,
     unified_df_gen |->
         IF m.raised = "" THEN ToRecords(unified_df_gen_mapped(generic)) ELSE <<>>,
     metrics |-> [raised |-> m.raised,
                  segment_comparison |-> MetricsRecords(m.segment_comparison),
                  region_summary |-> MetricsRecords(m.region_summary),
                  age_summary |-> MetricsRecords(m.age_summary),
                  gender_summary |-> MetricsRecords(m.gender_summary),
                  prescriber_comparison |-> MetricsRecords(m.prescriber_comparison)]]

(* AzureSQLConnection.execute_query (db.py): a pyodbc.Error is raised     *)
(* again as Exception, otherwise the rows of the SELECT are returned       *)
DbOutcomes == {"ok", "error"}

(* a connection that swallows the error and hands rows back *)
AzureSQLConnection_execute_query_quiet(outcome, rows) ==
    [raised |-> "", data |-> rows]

AzureSQLConnection_execute_query(outcome, rows) ==
    IF outcome = "error" THEN [raised |-> "Exception", data |-> NoDF]
    ELSE [raised |-> "", data |-> rows]

(* execute_query left by an exception: nothing is returned *)
Aborted(raised, cip, gen) ==
    [metrics |-> NoMetrics("none"),
     payload |-> [NoPayload EXCEPT !.raised = raised],
     db |-> [cip |-> cip, gen |-> gen]]

(* lines 133-292; brand and generic are the wide tables the rows of the   *)
(* two SELECTs pivot to (lines 166-197, 230-261)                           *)
(* lines 288-292: the payload returned once both SELECTs and the compare  *)
(* are done                                                                *)
Completed(brand, generic, m, cip, gen) ==
    [metrics |-> m,
     payload |-> Payload(brand, generic, m),
     db |-> [cip |-> cip, gen |-> gen]]

execute_query(brand, generic, cip, gen, tie) ==
    LET res_cip == AzureSQLConnection_execute_query(cip, brand)
    IN  IF res_cip.raised # "" THEN Aborted(res_cip.raised, cip, "not_run")
        ELSE LET res_gen == AzureSQLConnection_execute_query(gen, generic)
             IN  IF res_gen.raised # "" THEN Aborted(res_gen.raised, cip, gen)
                 ELSE Completed(res_cip.data, res_gen.data,
                                compare_brand_vs_generic(res_cip.data, res_gen.data, tie),
                                cip, gen)

----------------------------------------------------------------------------
(* pd.to_numeric(errors="coerce") of a text cell, then .fillna(0).astype(int) *)

Digits == <<"0", "1", "2", "3", "4", "5", "6", "7", "8", "9">>

IsDigit(c) == Contains(Digits, c)

DigitVal(c) == (CHOOSE i \in 1..Len(Digits) : Digits[i] = c) - 1

(* value of a non-empty digit string *)
RECURSIVE Decimal(_)
Decimal(s) ==
    IF Len(s) = 1 THEN DigitVal(s[1])
    ELSE 10 * Decimal(SubSeq(s, 1, Len(s) - 1)) + DigitVal(s[Len(s)])

AllDigits(s) == s # <<>> /\ \A i \in 1..Len(s) : IsDigit(s[i])

(* the spelling of infinity pd.to_numeric parses as a float *)
InfText == <<"i", "n", "f">>

(* a missing cell and a cell that is no number give NaN; "inf" and "-inf" *)
(* are numbers, the two infinite floats                                    *)
to_numeric(s) ==
    IF AllDigits(s) THEN Fin(Decimal(s))
    ELSE IF s # <<>> /\ Head(s) = "-" /\ AllDigits(Tail(s)) THEN Fin(-Decimal(Tail(s)))
    ELSE IF s = InfText THEN PosInf
    ELSE IF s = <<"-">> \o InfText THEN NegInf
    ELSE NaN

(* .fillna(0).astype(int) of a parsed cell that is finite or missing *)
AsInt(x) == FillNa0(x).n

CoerceInt(s) == AsInt(to_numeric(s))

(* .astype(int) raises IntCastingNaNError on a column holding +-inf, which *)
(* fillna(0) has left in place                                             *)
CastRaises(x) == FillNa0(x).k # "fin"

----------------------------------------------------------------------------
(* load_unified of pharma/utils/loaders.py *)

key_cols == {"BEN_REG", "sexe", "age", "CIP13", "GEN_NUM", "total_boites"}

(* a drop list without GEN_NUM *)
RawCodeCols_no_gen == {"BEN_REG", "sexe", "age", "CIP13"}

(* line 50: the columns dropped *)
RawCodeCols == {"BEN_REG", "sexe", "age", "CIP13", "GEN_NUM"}

NoLoaded(raised) ==
    [raised |-> raised, df |-> NoDF, display |-> "", prescribers |-> <<>>,
     prescriber_cols |-> <<>>]

(* lines 20-32: does the cast of one of the numeric columns raise *)
CoerceRaises(df, cols) ==
    \E c \in 1..Len(cols) : \E r \in 1..Len(df.data) :
        CastRaises(to_numeric(Cell(df, r, cols[c])))

(* lines 20-32: every numeric column coerced, column by column *)
RECURSIVE CoerceCols(_, _)
CoerceCols(df, cols) ==
    IF cols = <<>> THEN df
    ELSE CoerceCols(SetCol(df, Head(cols),
                           [r \in 1..Len(df.data) |-> CoerceInt(Cell(df, r, Head(cols)))]),
                    Tail(cols))

(* lines 42-47 *)
Display(kc) == IF kc = "GEN_NUM" THEN "Generic" ELSE "Medication"

(* a choice by the column the source holds instead of by key_col *)
WithProduct_by_source(df, kc) ==
    IF HasCol(df, "GEN_NUM")
    THEN AddCol(df, "Generic", [r \in 1..Len(df.data) |-> Cell(df, r, "GEN_NUM")])
    ELSE AddCol(df, "Medication",
                [r \in 1..Len(df.data) |-> MapGet(cpi_map, Cell(df, r, "CIP13"))])

WithProduct(df, kc) ==
    IF kc = "GEN_NUM"
    THEN AddCol(df, "Generic", [r \in 1..Len(df.data) |-> Cell(df, r, "GEN_NUM")])
    ELSE AddCol(df, "Medication",
                [r \in 1..Len(df.data) |-> MapGet(cpi_map, Cell(df, r, "CIP13"))])

(* the columns load_unified indexes; a missing one is a KeyError *)
NeededCols(kc) ==
    {"total_boites", "BEN_REG", "sexe", "age"}
        \cup (IF kc = "GEN_NUM" THEN {"GEN_NUM"} ELSE {"CIP13"})

(* the body shared by the two copies of load_unified; keys is key_cols.   *)
(* The casts (lines 20-32) come before the label columns are read.         *)
LoadUnifiedWith(csv, kc, keys) ==
    LET prescriber_cols == SelectSeq(csv.columns, LAMBDA c : c \notin keys)
    IN  IF ~HasCol(csv, "total_boites") THEN NoLoaded("KeyError")
        ELSE IF CoerceRaises(csv, <<"total_boites">> \o prescriber_cols)
        THEN NoLoaded("IntCastingNaNError")
        ELSE IF \E c \in NeededCols(kc) : ~HasCol(csv, c) THEN NoLoaded("KeyError")
        ELSE LET d1 == CoerceCols(csv, <<"total_boites">> \o prescriber_cols)
                 d2 == WithProduct(WithDemographics(d1), kc)
                 d3 == DropCols(d2, RawCodeCols)
                 core == {"Region", "Sex", "Age", Display(kc), "total_boites"}
                 raw_pres == SelectSeq(d3.columns, LAMBDA c : c \notin core)
             IN  [raised |-> "",
                  df |-> RenamePrescribers(d3, raw_pres),
                  display |-> Display(kc),
                  prescribers |->
                      [i \in 1..Len(raw_pres) |-> MapGet(presc_map, raw_pres[i])],
                  prescriber_cols |-> prescriber_cols]

load_unified(csv, kc) == LoadUnifiedWith(csv, kc, key_cols)

(* load_unified of app_streamlit.py: GEN_NUM is not among its key_cols *)
key_cols_app == {"BEN_REG", "sexe", "age", "CIP13", "total_boites"}

load_unified_app(csv, kc) == LoadUnifiedWith(csv, kc, key_cols_app)

----------------------------------------------------------------------------
(* Input universe: wide tables as execute_query builds them (one row per   *)
(* (BEN_REG, sexe, age, product), rows ascending by that key)              *)

Str(i) == <<Digits[i + 1]>>

(* the i-th segment: regions "1" and "2" share a label and a region from  *)
(* "3" on has none; sexes "1" and "2" have labels of their own; age "20"   *)
(* has a label and age "60" has none                                       *)
Segment(i) == <<Str(i),
                IF i = 1 THEN <<"1">> ELSE <<"2">>,
                IF i = 1 THEN <<"2", "0">> ELSE <<"6", "0">>>>

(* the box counts of a wide row: a negative count, none, the largest *)
Boxes == {-1, 0, MaxBoxes}

WideColumns(prodcol) == <<"BEN_REG", "sexe", "age", prodcol, "total_boites", "A">>

(* the n-row wide tables: segments ascending, the products of one segment *)
(* numbered 1, 2, ...; every fact row has prescriber A, so that the pivot  *)
(* column A and total_boites (lines 171-197) are the same sum of BOITES    *)
(* a negative count, which the sum of a corrupt BOITES column gives, is   *)
(* tried on the brand side                                                 *)
BoxesOf(prodcol) == IF prodcol = "CIP13" THEN Boxes ELSE Boxes \ {-1}

WideTables(prodcol, n) ==
    {[columns |-> WideColumns(prodcol),
      data |-> [r \in 1..n |->
                   Segment(sg[r]) \o
                   <<Str(Cardinality({q \in 1..r : sg[q] = sg[r]})), tot[r], tot[r]>>]] :
        sg \in {f \in [1..n -> 1..MaxSeg] : \A r \in 1..(n - 1) : f[r] <= f[r + 1]},
        tot \in [1..n -> BoxesOf(prodcol)]}

(* the example of the specification: one brand row with two prescribers,  *)
(* one generic row with one                                                *)
ExampleBrand ==
    [columns |-> <<"BEN_REG", "sexe", "age", "CIP13", "total_boites", "A", "B">>,
     data |-> << <<<<"5">>, <<"1">>, <<"2", "0">>, <<"X">>, 100, 60, 40>> >>]

ExampleGeneric ==
    [columns |-> <<"BEN_REG", "sexe", "age", "GEN_NUM", "total_boites", "A">>,
     data |-> << <<<<"5">>, <<"1">>, <<"2", "0">>, <<"Y">>, 50, 50>> >>]

(* Input universe: CSV files of two rows *)

CsvChars == {"-", "1", "x"}

CsvKeys == << <<<<"1">>, <<"1">>, <<"2", "0">>>>, <<<<"3">>, <<"2">>, <<"6", "0">>>> >>

ProductColumns == {<<"CIP13">>, <<"GEN_NUM">>, <<"CIP13", "GEN_NUM">>, <<>>}

ProductCell(c) == IF c = "CIP13" THEN <<"1">> ELSE <<"7">>

(* cells[r] = <<total_boites, A>> of row r *)
CsvTable(prod, cells) ==
    [columns |-> SegCols \o prod \o <<"total_boites", "A">>,
     data |-> [r \in 1..Len(CsvKeys) |->
                  CsvKeys[r] \o [i \in 1..Len(prod) |-> ProductCell(prod[i])]
                      \o cells[r]]]

TextsOfLen(n) == [1..n -> CsvChars]

(* how MaxChars characters at most spread over the four numeric cells *)
CellLengths ==
    {l \in [1..4 -> 0..MaxChars] : l[1] + l[2] + l[3] + l[4] <= MaxChars}

ShortTables ==
    UNION {{CsvTable(prod, <<<<c1, c2>>, <<c3, c4>>>>) :
                prod \in ProductColumns,
                c1 \in TextsOfLen(l[1]), c2 \in TextsOfLen(l[2]),
                c3 \in TextsOfLen(l[3]), c4 \in TextsOfLen(l[4])} :
           l \in CellLengths}

(* files whose prescriber column is B, a code without label, and whose    *)
(* numeric cells are "1" or "inf"                                          *)
InfCells == {<<"1">>, InfText}

InfTables ==
    {RenameCol(CsvTable(prod, <<<<c1, c2>>, <<c3, c4>>>>), "A", "B") :
        prod \in ProductColumns,
        c1 \in InfCells, c2 \in InfCells, c3 \in InfCells, c4 \in InfCells}

(* files with the two prescriber columns A and C, whose codes share a     *)
(* label; cells[r] = <<A, C>> of row r                                     *)
TwinCells == {<<"1">>, <<"2">>}

TwinTables ==
    {[columns |-> SegCols \o prod \o <<"total_boites", "A", "C">>,
      data |-> [r \in 1..Len(CsvKeys) |->
                   CsvKeys[r] \o [i \in 1..Len(prod) |-> ProductCell(prod[i])]
                       \o <<<<"3">>, a[r], c[r]>>]] :
        prod \in {<<"CIP13">>, <<"GEN_NUM">>},
        a \in [1..Len(CsvKeys) -> TwinCells], c \in [1..Len(CsvKeys) -> TwinCells]}

CsvTables == ShortTables \cup InfTables \cup TwinTables

----------------------------------------------------------------------------
(* AzureSQLConnection.execute_query (db.py lines 30-66), step by step.     *)
(* conn.pos is the line the call has reached, conn.held says whether the   *)
(* connection of the current call is open, conn.leaked counts the          *)
(* connections earlier calls left open.                                    *)

NoConn == [pos |-> "idle", kind |-> "", held |-> 0, leaked |-> 0, calls |-> 0,
           result |-> ""]

(* does the query have a result set (cursor.description, line 41) *)
QueryKinds == {"select", "other"}

(* where a step goes on: to the next line, or to the handler of line 63   *)
(* when the driver raises pyodbc.Error                                     *)
StepTo(outcome, next) == IF outcome = "error" THEN "except" ELSE next

----------------------------------------------------------------------------
(* From the fact rows of the query to the wide table (execute_query.py     *)
(* lines 165-197 for CIP13, 229-261 for GEN_NUM).  A fact row is           *)
(* [key |-> <<BEN_REG, sexe, age, product>>, psp |-> PSP_SPE, boites |->  *)
(* BOITES]; "null" is the PSP_SPE of a row without prescriber, None the    *)
(* BOITES of a row without count.                                          *)

(* line 168: pd.to_numeric(BOITES, errors='coerce').fillna(0) *)
Boites(row) == IF row.boites.k = "fin" THEN row.boites.n ELSE 0

(* the sum of BOITES over the rows of a group *)
SumBoites(rows) == SumSeq([i \in 1..Len(rows) |-> Boites(rows[i])])

(* lines 171-175: groupby of the four key columns, sum of BOITES *)
FactTotal(f, k) == SumBoites(SelectSeq(f, LAMBDA x : x.key = k))

(* a breakdown that keeps the last row of each group instead of the sum *)
FactCell_last(f, k, p) ==
    LET g == SelectSeq(f, LAMBDA x : x.key = k /\ x.psp = p)
    IN  IF g = <<>> THEN 0 ELSE Boites(g[Len(g)])

(* lines 178-194: groupby of the key columns and PSP_SPE, sum of BOITES,   *)
(* then the pivot: the cell of key k and prescriber p, fill_value 0 where  *)
(* the key has no row of the prescriber                                    *)
FactCell(f, k, p) == SumBoites(SelectSeq(f, LAMBDA x : x.key = k /\ x.psp = p))

(* groupby drops the rows whose PSP_SPE is null (dropna=True) *)
WithPrescriber(f) == SelectSeq(f, LAMBDA x : x.psp # "null")

(* the columns of the pivot: the prescribers of the rows, ascending *)
PivotColumns(f) ==
    LET S == {f[i].psp : i \in 1..Len(f)} \ {"null"}
        rank == [k \in S |-> Cardinality({l \in S : NameLess(l, k)})]
    IN  [p \in 1..Cardinality(S) |-> CHOOSE k \in S : rank[k] = p - 1]

(* the index of the pivot: the keys of the rows with a prescriber,        *)
(* ascending                                                               *)
PivotIndex(f) ==
    LET S == {f[i].key : i \in {j \in 1..Len(f) : f[j].psp # "null"}}
        rank == [k \in S |-> Cardinality({l \in S : KeyLess(l, k)})]
    IN  [p \in 1..Cardinality(S) |-> CHOOSE k \in S : rank[k] = p - 1]

(* line 197: total.merge(pivot, on=the four key columns), an inner merge:  *)
(* one row per key of the pivot                                            *)
WideOf(f, prodcol, index, cols) ==
    [columns |-> SegCols \o <<prodcol, "total_boites">> \o cols,
     data |-> [i \in 1..Len(index) |->
                  index[i] \o <<FactTotal(f, index[i])>>
                      \o [j \in 1..Len(cols) |-> FactCell(f, index[i], cols[j])]]]

(* what pivot_table does with a breakdown of no row depends on the pandas  *)
(* version: a table of no row, or an error                                 *)
PivotOfNothing == {"empty", "raises"}

(* lines 165-197; no row at all gives a DataFrame without BOITES column    *)
(* (line 168)                                                              *)
wide_from_facts(f, prodcol, nothing) ==
    IF f = <<>> THEN [raised |-> "KeyError", df |-> NoDF]
    ELSE IF WithPrescriber(f) = <<>> /\ nothing = "raises"
    THEN [raised |-> "ValueError", df |-> NoDF]
    ELSE [raised |-> "", df |-> WideOf(f, prodcol, PivotIndex(f), PivotColumns(f))]

(* Input universe: the rows the query returns *)

FactPrescribers == {"A", "B", "null"}

FactBoxes == {None, Fin(MaxBoxes), Fin(2 * MaxBoxes)}

FactRow(i, p, b) == [key |-> Segment(i) \o <<<<"1">>>>, psp |-> p, boites |-> b]

(* the tables of n rows of one product, the rows of a segment together *)
FactTables(n) ==
    {[r \in 1..n |-> FactRow(sg[r], ps[r], bx[r])] :
        sg \in {g \in [1..n -> 1..MaxSeg] : \A r \in 1..(n - 1) : g[r] <= g[r + 1]},
        ps \in [1..n -> FactPrescribers],
        bx \in [1..n -> FactBoxes]}

----------------------------------------------------------------------------
(* The page pharma/pages/3_Brand_vs_Generic.py *)

(* the column names c with c.isdigit() (line 24): the prescriber codes *)
DigitColumns == {"1", "2"}

PrescCols(df) == SelectSeq(df.columns, LAMBDA c : c \in DigitColumns)

(* lines 32-34: Region, Age Group, Gender of row r, the code where the map *)
(* has no label                                                            *)
PageLabels(df, r) ==
    <<MapGet(region_map, Cell(df, r, "BEN_REG")),
      MapGet(age_map, Cell(df, r, "age")),
      MapGet(sex_map, Cell(df, r, "sexe"))>>

(* lines 27-29 and 37-45: the coerced prescriber cells melted column by   *)
(* column, the labels as id_vars, the prescriber code replaced by its      *)
(* label                                                                   *)
MeltLabels(df, cols) ==
    Flatten([c \in 1..Len(cols) |->
                [r \in 1..Len(df.data) |->
                    [key |-> MergeKey(PageLabels(df, r), MapGet(presc_map, cols[c])),
                     val |-> CoerceInt(Cell(df, r, cols[c]))]]])

(* a filter that lets every row through *)
PositiveBoxes_all(long) == long

(* line 43: long[long["Boxes"] > 0] *)
PositiveBoxes(long) == SelectSeq(long, LAMBDA x : x.val > 0)

(* line 47: the name of the Boxes column *)
BoxesColumn(kind) == IF kind = "generic" THEN "Boxes_Generic" ELSE "Boxes_Sanofi"

(* lines 22-47 *)
load_long(csv, kind) ==
    IF CoerceRaises(csv, <<"total_boites">> \o PrescCols(csv))
    THEN [raised |-> "IntCastingNaNError", column |-> "", rows |-> <<>>]
    ELSE [raised |-> "", column |-> BoxesColumn(kind),
          rows |-> PositiveBoxes(MeltLabels(csv, PrescCols(csv)))]

(* line 62 and line 80: np.where(total == 0, 0, part / total) *)
ShareOrZero(part, total) == IF total = Fin(0) THEN Fin(0) ELSE NumDiv(part, total)

(* lines 59-62: fillna(0), Boxes_Total, Sanofi_Share on the merged rows *)
LongRows(m) ==
    [i \in 1..Len(m) |->
        [key |-> m[i].key,
         Boxes_Generic |-> FillNa0(m[i].l),
         Boxes_Sanofi |-> FillNa0(m[i].r),
         Boxes_Total |-> NumAdd(FillNa0(m[i].l), FillNa0(m[i].r)),
         Sanofi_Share |-> ShareOrZero(FillNa0(m[i].r),
                                      NumAdd(FillNa0(m[i].l), FillNa0(m[i].r)))]]

(* lines 54-62: the outer merge of the two long tables on Region, Age      *)
(* Group, Gender, Prescriber                                               *)
MergedLong(long_generic, long_sanofi) ==
    LongRows(Merge(long_generic, long_sanofi, "outer"))

Views == {"Region", "Age Group", "Gender", "Prescriber"}

(* the value of column dim in a row of the long table *)
DimOf(row, dim) ==
    CASE dim = "Region" -> row.key.seg[1]
      [] dim = "Age Group" -> row.key.seg[2]
      [] dim = "Gender" -> row.key.seg[3]
      [] OTHER -> row.key.psp

(* the order of the labels of a dimension *)
DimLess(dim, a, b) == IF dim = "Prescriber" THEN NameLess(a, b) ELSE StrLess(a, b)

(* the group labels of groupby(dim), ascending *)
GroupLabels(long, dim) ==
    LET S == {DimOf(long[i], dim) : i \in 1..Len(long)}
        rank == [k \in S |-> Cardinality({l \in S : DimLess(dim, l, k)})]
    IN  [p \in 1..Cardinality(S) |-> CHOOSE k \in S : rank[k] = p - 1]

(* lines 74-78: the sums of Boxes_Generic and Boxes_Sanofi of one group *)
GroupSums(g, label) ==
    [label |-> label,
     Boxes_Generic |-> NumSum([i \in 1..Len(g) |-> g[i].Boxes_Generic]),
     Boxes_Sanofi |-> NumSum([i \in 1..Len(g) |-> g[i].Boxes_Sanofi])]

Grouped(long, dim, labels) ==
    [i \in 1..Len(labels) |->
        GroupSums(SelectSeq(long, LAMBDA x : DimOf(x, dim) = labels[i]), labels[i])]

(* lines 79-82: Boxes_Total, Sanofi_Share, Volume_Share *)
WithShares(agg, total_all) ==
    [i \in 1..Len(agg) |->
        [label |-> agg[i].label,
         Boxes_Generic |-> agg[i].Boxes_Generic,
         Boxes_Sanofi |-> agg[i].Boxes_Sanofi,
         Boxes_Total |-> NumAdd(agg[i].Boxes_Generic, agg[i].Boxes_Sanofi),
         Sanofi_Share |-> ShareOrZero(agg[i].Boxes_Sanofi,
                                      NumAdd(agg[i].Boxes_Generic, agg[i].Boxes_Sanofi)),
         Volume_Share |-> ShareOrZero(NumAdd(agg[i].Boxes_Generic, agg[i].Boxes_Sanofi),
                                      total_all)]]

TotalAll(agg) ==
    NumSum([i \in 1..Len(agg) |-> NumAdd(agg[i].Boxes_Generic, agg[i].Boxes_Sanofi)])

(* line 83: sort_values("Boxes_Total", ascending=False); equal totals are  *)
(* left in either order                                                    *)
SortByTotal(rows, tie) ==
    LET rank == [i \in 1..Len(rows) |->
                    Cardinality({j \in 1..Len(rows) : j # i /\
                        \/ NumLess(rows[i].Boxes_Total, rows[j].Boxes_Total)
                        \/ /\ rows[i].Boxes_Total = rows[j].Boxes_Total
                           /\ IF tie = "keep" THEN j < i ELSE i < j})]
    IN  [p \in 1..Len(rows) |-> rows[CHOOSE i \in 1..Len(rows) : rank[i] = p - 1]]

AggregateGroups(agg, tie) == SortByTotal(WithShares(agg, TotalAll(agg)), tie)

(* lines 73-83 *)
aggregate(long, dim, tie) ==
    AggregateGroups(Grouped(long, dim, GroupLabels(long, dim)), tie)

(* Input universe: the two wide CSV files of the page *)

PageCells == {<<"-", "1">>, Str(MaxBoxes), Str(MaxBoxes + 1)}

(* the n-row files: segments ascending, the products of one segment       *)
(* numbered 1, 2, ..., one prescriber column among cols with cells among   *)
(* texts                                                                   *)
PageTables(prodcol, n, cols, texts) ==
    {[columns |-> SegCols \o <<prodcol, "total_boites", col>>,
      data |-> [r \in 1..n |->
                   Segment(sg[r]) \o
                   <<Str(Cardinality({q \in 1..r : sg[q] = sg[r]})), <<"3">>, cells[r]>>]] :
        col \in cols,
        sg \in {f \in [1..n -> 1..MaxSeg] : \A r \in 1..(n - 1) : f[r] <= f[r + 1]},
        cells \in [1..n -> texts]}

(* the files of one row and one segment whose cell is "1" or "2" *)
EditCells == {<<"1">>, <<"2">>}

EditTables(prodcol) ==
    {t \in PageTables(prodcol, 1, {"1"}, EditCells) : t.data[1][1] = Str(1)}

(* a cost file of streamlit_app.py: one row, the column Year *)
CostTables == {[columns |-> <<"Year">>, data |-> << <<c>> >>] : c \in EditCells \cup {<<"x">>}}

(* streamlit_app.py lines 56-92: the cost files read, Year coerced with    *)
(* pd.to_numeric(errors="coerce")                                          *)
load_data(cost) ==
    [raised |-> "",
     rows |-> [r \in 1..Len(cost.data) |-> <<to_numeric(Cell(cost, r, "Year"))>>]]

----------------------------------------------------------------------------
(* The state around the pipeline when it does not run *)

NoFacts == <<>>

NoDb == [cip |-> "not_run", gen |-> "not_run"]

IdlePipeline ==
    /\ unified_df = NoDF
    /\ unified_df_gen = NoDF
    /\ metrics = NoMetrics("none")
    /\ payload = NoPayload
    /\ src = NoDF
    /\ key_col = ""
    /\ loaded = NoLoaded("none")
    /\ norm_metrics = NoMetrics("none")
    /\ db = NoDb
    /\ sort_kind = "keep"
    /\ rerun = NoMetrics("none")

NoFiles == [generic |-> NoDF, sanofi |-> NoDF, cost |-> NoDF]

(* the calls st.cache_data keeps an entry for: load_long(GENERIC_PATH,     *)
(* "generic"), load_long(SANOFI_PATH, "sanofi") and load_data()            *)
CacheKeys == {"generic", "sanofi", "cost"}

NoEntry == [hit |-> FALSE, value |-> <<>>]

NoCache == [k \in CacheKeys |-> NoEntry]

NoServed == [raised |-> "none", long_generic |-> <<>>, long_sanofi |-> <<>>,
             long |-> <<>>, view |-> "", agg |-> <<>>, data |-> <<>>]

IdlePage == files = NoFiles /\ cache = NoCache /\ served = NoServed

----------------------------------------------------------------------------
(* The state machine *)

InitQuery ==
    /\ \/ \E nb \in 1..(MaxRows - 1) : \E ng \in 1..(MaxRows - nb) :
            /\ unified_df \in WideTables("CIP13", nb)
            /\ unified_df_gen \in WideTables("GEN_NUM", ng)
       \/ unified_df = ExampleBrand /\ unified_df_gen = ExampleGeneric
    /\ src = NoDF
    /\ key_col = ""
    /\ pc = "query"

InitCsv ==
    /\ unified_df = NoDF
    /\ unified_df_gen = NoDF
    /\ src \in CsvTables
    /\ key_col \in {"CIP13", "GEN_NUM"}
    /\ pc = "csv"

Init ==
    /\ InitQuery \/ InitCsv
    /\ metrics = NoMetrics("none")
    /\ payload = NoPayload
    /\ loaded = NoLoaded("none")
    /\ norm_metrics = NoMetrics("none")
    /\ db = NoDb
    /\ sort_kind = "keep"
    /\ rerun = NoMetrics("none")
    /\ facts = NoFacts
    /\ conn = NoConn
    /\ IdlePage

(* the orders sort_values may leave rows of equal brand_share in *)
TieOrders == {"keep", "flip"}

(* two rows of one table have the same brand_share: the sort had a tie *)
HasTies(t) ==
    \E i, j \in 1..Len(t) : i < j /\ t[i].brand_share = t[j].brand_share

SortedWithTies(m) ==
    \/ HasTies(m.segment_comparison)
    \/ HasTies(m.region_summary)
    \/ HasTies(m.age_summary)
    \/ HasTies(m.gender_summary)
    \/ HasTies(m.prescriber_comparison)

(* what execute_query leaves behind: its result r, and the order of ties  *)
(* of its sort                                                             *)
Returns(r, tie) ==
    /\ metrics' = r.metrics
    /\ payload' = r.payload
    /\ db' = r.db
    /\ sort_kind' = IF SortedWithTies(metrics') THEN tie ELSE "keep"
    /\ pc' = IF payload'.raised = "" THEN "returned" ELSE "aborted"

(* execute_query: the two SELECTs end as cip and gen say; unified_df and  *)
(* unified_df_gen are the wide tables their results pivot to.  sort_kind   *)
(* keeps the order the sort left ties in, when it had ties to order.       *)
ExecuteQuery(tie, cip, gen) ==
    /\ pc = "query"
    /\ Returns(execute_query(unified_df, unified_df_gen, cip, gen, tie), tie)
    /\ UNCHANGED <<unified_df, unified_df_gen, src, key_col, loaded, norm_metrics,
                   rerun>>
    /\ UNCHANGED <<facts, conn, files, cache, served>>

(* compare_brand_vs_generic on the two label-mapped tables *)
AggregateMapped(tie) ==
    /\ pc = "returned"
    /\ norm_metrics' = compare_brand_vs_generic(unified_df_mapped(unified_df),
                                                unified_df_gen_mapped(unified_df_gen),
                                                tie)
    /\ pc' = "aggregated"
    /\ UNCHANGED <<unified_df, unified_df_gen, metrics, payload, src, key_col, loaded,
                   db, sort_kind, rerun>>
    /\ UNCHANGED <<facts, conn, files, cache, served>>

(* pages: load_unified(path, key_col) *)
LoadUnified ==
    /\ pc = "csv"
    /\ loaded' = load_unified(src, key_col)
    /\ pc' = "loaded"
    /\ UNCHANGED <<unified_df, unified_df_gen, metrics, payload, src, key_col,
                   norm_metrics, db, sort_kind, rerun>>
    /\ UNCHANGED <<facts, conn, files, cache, served>>

(* app_streamlit.py: load_unified(path, key_col) *)
LoadUnifiedApp ==
    /\ pc = "csv"
    /\ loaded' = load_unified_app(src, key_col)
    /\ pc' = "loaded_app"
    /\ UNCHANGED <<unified_df, unified_df_gen, metrics, payload, src, key_col,
                   norm_metrics, db, sort_kind, rerun>>
    /\ UNCHANGED <<facts, conn, files, cache, served>>

(* compare_brand_vs_generic on the table load_unified returned *)
AggregateLoaded(tie) ==
    /\ pc \in {"loaded", "loaded_app"}
    /\ loaded.raised = ""
    /\ norm_metrics' = compare_brand_vs_generic(loaded.df, loaded.df, tie)
    /\ pc' = "aggregated"
    /\ UNCHANGED <<unified_df, unified_df_gen, metrics, payload, src, key_col, loaded,
                   db, sort_kind, rerun>>
    /\ UNCHANGED <<facts, conn, files, cache, served>>

(* a sort that leaves ties the other way round on a second run *)
SortOrderOfRerun_other(tie) == IF tie = "keep" THEN "flip" ELSE "keep"

(* sort_values runs one algorithm: on the same rows a second run leaves   *)
(* the ties as the first run did                                           *)
SortOrderOfRerun(tie) == tie

(* compare_brand_vs_generic a second time on the same two tables *)
CompareAgain ==
    /\ pc = "returned"
    /\ rerun' = compare_brand_vs_generic(unified_df, unified_df_gen,
                                         SortOrderOfRerun(sort_kind))
    /\ pc' = "compared_again"
    /\ UNCHANGED <<unified_df, unified_df_gen, metrics, payload, src, key_col, loaded,
                   norm_metrics, db, sort_kind>>
    /\ UNCHANGED <<facts, conn, files, cache, served>>

(* load_unified a second time on the same file *)
LoadAgain ==
    /\ pc \in {"loaded", "loaded_app"}
    /\ rerun' = IF pc = "loaded" THEN load_unified(src, key_col)
                ELSE load_unified_app(src, key_col)
    /\ pc' = "loaded_again"
    /\ UNCHANGED <<unified_df, unified_df_gen, metrics, payload, src, key_col, loaded,
                   norm_metrics, db, sort_kind>>
    /\ UNCHANGED <<facts, conn, files, cache, served>>

Next ==
    \/ \E tie \in TieOrders : \E cip, gen \in DbOutcomes : ExecuteQuery(tie, cip, gen)
    \/ \E tie \in TieOrders : AggregateMapped(tie)
    \/ LoadUnified
    \/ LoadUnifiedApp
    \/ \E tie \in TieOrders : AggregateLoaded(tie)
    \/ CompareAgain
    \/ LoadAgain

Spec == Init /\ [][Next]_vars

----------------------------------------------------------------------------
(* The wide tables of execute_query *)

InitFacts ==
    /\ IdlePipeline
    /\ IdlePage
    /\ conn = NoConn
    /\ \E n \in 0..MaxRows : facts \in FactTables(n)
    /\ pc = "facts"

Widened(r, prodcol) ==
    /\ pc' = IF r.raised = "" THEN "wide" ELSE "aborted"
    /\ key_col' = prodcol
    /\ unified_df' = IF prodcol = "CIP13" THEN r.df ELSE unified_df
    /\ unified_df_gen' = IF prodcol = "GEN_NUM" THEN r.df ELSE unified_df_gen

(* lines 165-197 (CIP13) or 229-261 (GEN_NUM) *)
Widen(prodcol, nothing) ==
    /\ pc = "facts"
    /\ nothing = "raises" => facts # <<>> /\ WithPrescriber(facts) = <<>>
    /\ Widened(wide_from_facts(facts, prodcol, nothing), prodcol)
    /\ UNCHANGED <<metrics, payload, src, loaded, norm_metrics, db, sort_kind, rerun>>
    /\ UNCHANGED <<facts, conn, page_vars>>

NextFacts ==
    \E prodcol \in {"CIP13", "GEN_NUM"} : \E nothing \in PivotOfNothing :
        Widen(prodcol, nothing)

SpecFacts == InitFacts /\ [][NextFacts]_vars

----------------------------------------------------------------------------
(* The runs of the page 3_Brand_vs_Generic.py *)

InitPage ==
    /\ IdlePipeline
    /\ facts = NoFacts
    /\ conn = NoConn
    /\ \E ng \in 1..(MaxRows - 1) : \E ns \in 1..(MaxRows - ng) :
           \/ \E g \in PageTables("GEN_NUM", ng, {"1"}, PageCells) :
              \E s \in PageTables("CIP13", ns, DigitColumns, PageCells) :
                  files = [generic |-> g, sanofi |-> s, cost |-> NoDF]
           \/ \E g \in PageTables("GEN_NUM", 1, {"1"}, InfCells) :
              \E s \in PageTables("CIP13", 1, {"1"}, InfCells) :
                  files = [generic |-> g, sanofi |-> s, cost |-> NoDF]
    /\ cache = NoCache
    /\ served = NoServed
    /\ pc = "page"

(* st.cache_data: the value kept for the call, or the value computed *)
Cached(k, computed) == IF cache[k].hit THEN cache[k].value ELSE computed

(* a call that raised leaves no entry *)
Entry(k, v) == IF v.raised = "" THEN [hit |-> TRUE, value |-> v] ELSE cache[k]

(* lines 64-83: the radio and the aggregate of the merged table *)
ShownLong(g, s, long, view, tie) ==
    [raised |-> "", long_generic |-> g.rows, long_sanofi |-> s.rows,
     long |-> long, view |-> view, agg |-> aggregate(long, view, tie),
     data |-> served.data]

(* the radio is on one of the views; equal totals are sorted either way *)
Aggregated(g, s, long) ==
    \E view \in Views : \E tie \in TieOrders :
        served' = ShownLong(g, s, long, view, tie)

(* lines 50-62 and 73-83: what a run of the script shows; a load that      *)
(* raises ends the run                                                     *)
PageRan(g, s) ==
    /\ cache' = [cache EXCEPT !.generic = Entry("generic", g),
                              !.sanofi = IF g.raised = "" THEN Entry("sanofi", s)
                                         ELSE cache.sanofi]
    /\ IF g.raised # "" \/ s.raised # ""
       THEN served' = [NoServed EXCEPT !.raised = IF g.raised # "" THEN g.raised
                                                 ELSE s.raised,
                                      !.data = served.data]
       ELSE Aggregated(g, s, MergedLong(g.rows, s.rows))

(* a run of the script *)
RunPage ==
    /\ pc = "page"
    /\ PageRan(Cached("generic", load_long(files.generic, "generic")),
               Cached("sanofi", load_long(files.sanofi, "sanofi")))
    /\ pc' = "shown"
    /\ UNCHANGED <<pipeline_vars, facts, conn, files>>

NextPage == RunPage

SpecPage == InitPage /\ [][NextPage]_vars

----------------------------------------------------------------------------
(* Runs of the two Streamlit scripts while the source files change *)

InitCache ==
    /\ IdlePipeline
    /\ facts = NoFacts
    /\ conn = NoConn
    /\ \E g \in EditTables("GEN_NUM") : \E s \in EditTables("CIP13") :
       \E c \in CostTables :
           files = [generic |-> g, sanofi |-> s, cost |-> c]
    /\ cache = NoCache
    /\ served = NoServed
    /\ pc = "page"

(* a run of streamlit_app.py: load_data() through st.cache_data *)
RunHospital ==
    /\ pc = "page"
    /\ cache' = [cache EXCEPT !.cost = Entry("cost", Cached("cost", load_data(files.cost)))]
    /\ served' = [served EXCEPT !.data = Cached("cost", load_data(files.cost)).rows]
    /\ pc' = "charted"
    /\ UNCHANGED <<pipeline_vars, facts, conn, files>>

(* a widget is touched or the page reloaded: the script is run again *)
Interact ==
    /\ pc \in {"shown", "charted"}
    /\ pc' = "page"
    /\ UNCHANGED <<pipeline_vars, facts, conn, page_vars>>

(* one of the source files gets a new content *)
EditFile(k, t) ==
    /\ files[k] # t
    /\ files' = [files EXCEPT ![k] = t]
    /\ UNCHANGED <<pipeline_vars, facts, conn, cache, served, pc>>

(* the server is started again: the cache is empty *)
Restart ==
    /\ cache # NoCache
    /\ cache' = NoCache
    /\ pc' = "page"
    /\ UNCHANGED <<pipeline_vars, facts, conn, files, served>>

NextCache ==
    \/ RunPage
    \/ RunHospital
    \/ Interact
    \/ \E t \in EditTables("GEN_NUM") : EditFile("generic", t)
    \/ \E t \in EditTables("CIP13") : EditFile("sanofi", t)
    \/ \E t \in CostTables : EditFile("cost", t)
    \/ Restart

SpecCache == InitCache /\ [][NextCache]_vars

----------------------------------------------------------------------------
(* The connection of AzureSQLConnection.execute_query *)

InitDb ==
    /\ IdlePipeline
    /\ IdlePage
    /\ facts = NoFacts
    /\ conn = NoConn
    /\ pc = "db"

DbUnchanged == UNCHANGED <<pipeline_vars, facts, page_vars, pc>>

(* line 30: a call starts; the connection the call before left open stays *)
(* open                                                                    *)
Call(kind) ==
    /\ conn.pos \in {"idle", "returned", "raised"}
    /\ conn.calls < MaxCalls
    /\ conn' = [conn EXCEPT !.pos = "connect", !.kind = kind,
                            !.leaked = conn.leaked + conn.held, !.held = 0,
                            !.calls = conn.calls + 1, !.result = ""]
    /\ DbUnchanged

(* line 32: pyodbc.connect *)
Connect(outcome) ==
    /\ conn.pos = "connect"
    /\ conn' = [conn EXCEPT !.pos = StepTo(outcome, "execute"),
                            !.held = IF outcome = "ok" THEN 1 ELSE 0]
    /\ DbUnchanged

(* lines 33-41: cursor.execute, then the test of cursor.description *)
Execute(outcome) ==
    /\ conn.pos = "execute"
    /\ conn' = [conn EXCEPT !.pos = StepTo(outcome, IF conn.kind = "select"
                                                    THEN "fetch" ELSE "commit")]
    /\ DbUnchanged

(* lines 43-48: cursor.fetchall *)
Fetch(outcome) ==
    /\ conn.pos = "fetch"
    /\ conn' = [conn EXCEPT !.pos = StepTo(outcome, "close")]
    /\ DbUnchanged

(* line 59: conn.commit *)
Commit(outcome) ==
    /\ conn.pos = "commit"
    /\ conn' = [conn EXCEPT !.pos = StepTo(outcome, "close")]
    /\ DbUnchanged

(* lines 49-56 and 60-61: conn.close, then the return *)
CloseAndReturn ==
    /\ conn.pos = "close"
    /\ conn' = [conn EXCEPT !.pos = "returned", !.held = 0,
                            !.result = IF conn.kind = "select" THEN "data" ELSE "True"]
    /\ DbUnchanged

(* lines 63-66: the handler logs and raises Exception; it closes nothing  *)
Except ==
    /\ conn.pos = "except"
    /\ conn' = [conn EXCEPT !.pos = "raised", !.result = "Exception"]
    /\ DbUnchanged

(* the interpreter frees the connection object of an earlier call, whose  *)
(* destructor closes the connection                                        *)
Finalize ==
    /\ conn.leaked > 0
    /\ conn' = [conn EXCEPT !.leaked = conn.leaked - 1]
    /\ DbUnchanged

NextDb ==
    \/ \E kind \in QueryKinds : Call(kind)
    \/ \E outcome \in DbOutcomes : Connect(outcome)
    \/ \E outcome \in DbOutcomes : Execute(outcome)
    \/ \E outcome \in DbOutcomes : Fetch(outcome)
    \/ \E outcome \in DbOutcomes : Commit(outcome)
    \/ CloseAndReturn
    \/ Except
    \/ Finalize

SpecDb == InitDb /\ [][NextDb]_vars

----------------------------------------------------------------------------
(* Properties of compare_brand_vs_generic *)

Rows(t) == 1..Len(t)

Compared == metrics.raised = ""

InputKeys ==
    {SegKey(unified_df, r) : r \in 1..Len(unified_df.data)}
        \cup {SegKey(unified_df_gen, r) : r \in 1..Len(unified_df_gen.data)}

LabelsOf(k) == <<MapGet(region_map, k[1]), MapGet(sex_map, k[2]), MapGet(age_map, k[3])>>

RowLabels(row) == <<row.Region, row.Sex, row.Age>>

(* a segment with rows on one side only, and a segment with several       *)
(* product rows on one side                                                *)
OneSidedSegment ==
    \E k \in InputKeys :
        \/ \A r \in 1..Len(unified_df.data) : SegKey(unified_df, r) # k
        \/ \A r \in 1..Len(unified_df_gen.data) : SegKey(unified_df_gen, r) # k

SeveralProducts(df) ==
    \E r, q \in 1..Len(df.data) : r # q /\ SegKey(df, r) = SegKey(df, q)

(* C1: every (BEN_REG, sexe, age) key of either input has exactly one row *)
(* in segment_comparison and there is no other row: the table has as many  *)
(* rows as there are keys, and each label triple occurs on as many rows as *)
(* there are keys carrying it.                                             *)
C1_OuterMergeComplete ==
    Compared =>
        /\ Len(metrics.segment_comparison) = Cardinality(InputKeys)
        /\ \A k \in InputKeys :
              Cardinality({i \in Rows(metrics.segment_comparison) :
                              RowLabels(metrics.segment_comparison[i]) = LabelsOf(k)})
                = Cardinality({l \in InputKeys : LabelsOf(l) = LabelsOf(k)})

C1_Witness ==
    /\ Compared
    /\ OneSidedSegment
    /\ SeveralProducts(unified_df) \/ SeveralProducts(unified_df_gen)
    /\ Cardinality(InputKeys) > 1

ZeroShareWhenEmpty(t) ==
    \A i \in Rows(t) : t[i].combined_total = Fin(0) => t[i].brand_share = Fin(0)

(* C2: in each of the five tables a row whose combined_total is 0 has     *)
(* brand_share 0, never NaN.                                               *)
C2_ZeroVolumeShareIsZero ==
    Compared =>
        /\ ZeroShareWhenEmpty(metrics.segment_comparison)
        /\ ZeroShareWhenEmpty(metrics.region_summary)
        /\ ZeroShareWhenEmpty(metrics.age_summary)
        /\ ZeroShareWhenEmpty(metrics.gender_summary)
        /\ ZeroShareWhenEmpty(metrics.prescriber_comparison)

InputPrescKeys ==
    {[seg |-> SegKey(unified_df, r), psp |-> c] :
        r \in 1..Len(unified_df.data),
        c \in {x \in {unified_df.columns[i] : i \in 1..Len(unified_df.columns)} :
                  x \notin NonPrescriberCols \cup {"CIP13", "GEN_NUM"}}}
    \cup
    {[seg |-> SegKey(unified_df_gen, r), psp |-> c] :
        r \in 1..Len(unified_df_gen.data),
        c \in {x \in {unified_df_gen.columns[i] : i \in 1..Len(unified_df_gen.columns)} :
                  x \notin NonPrescriberCols \cup {"CIP13", "GEN_NUM"}}}

(* C3: prescriber_comparison has exactly one row per (region, sex, age,   *)
(* prescriber) key of either input, whatever the number of product rows.   *)
C3_OneRowPerPrescriberKey ==
    Compared => Len(metrics.prescriber_comparison) = Cardinality(InputPrescKeys)

(* C4: in every row of segment_comparison, combined_total is exactly      *)
(* brand_total + generic_total.                                            *)
C4_CombinedIsSum ==
    Compared =>
        \A i \in Rows(metrics.segment_comparison) :
            LET row == metrics.segment_comparison[i]
            IN  /\ row.combined_total.k = "fin"
                /\ row.brand_total.k = "fin"
                /\ row.generic_total.k = "fin"
                /\ row.combined_total.d = 1
                /\ row.combined_total.n = row.brand_total.n + row.generic_total.n

C4_Witness ==
    /\ Compared
    /\ \E i \in Rows(metrics.segment_comparison) :
          /\ metrics.segment_comparison[i].brand_total.n > 0
          /\ metrics.segment_comparison[i].generic_total.n > 0

(* 0 <= x <= 1 for a float *)
InUnitInterval(x) == x.k = "fin" /\ 0 <= x.n /\ x.n <= x.d

(* C5: every segment_comparison row with combined_total > 0 has           *)
(* 0 <= brand_share <= 1, for every pair of accepted input tables.         *)
C5_ShareInUnitInterval ==
    Compared =>
        \A i \in Rows(metrics.segment_comparison) :
            LET row == metrics.segment_comparison[i]
            IN  (row.combined_total.k = "fin" /\ row.combined_total.n > 0)
                    => InUnitInterval(row.brand_share)

TotalVolume(t) == SumSeq([i \in Rows(t) |-> t[i].combined_total.n])

(* C6: each of region_summary, age_summary and gender_summary has the     *)
(* same sum of combined_total as segment_comparison, also when codes have  *)
(* no label or share one.                                                  *)
C6_RollupConservesVolume ==
    Compared =>
        /\ \A i \in Rows(metrics.region_summary) :
              metrics.region_summary[i].combined_total.k = "fin"
        /\ \A i \in Rows(metrics.age_summary) :
              metrics.age_summary[i].combined_total.k = "fin"
        /\ \A i \in Rows(metrics.gender_summary) :
              metrics.gender_summary[i].combined_total.k = "fin"
        /\ TotalVolume(metrics.region_summary) = TotalVolume(metrics.segment_comparison)
        /\ TotalVolume(metrics.age_summary) = TotalVolume(metrics.segment_comparison)
        /\ TotalVolume(metrics.gender_summary) = TotalVolume(metrics.segment_comparison)

(* two codes rolled up into one label, a code without label, some volume *)
C6_Witness ==
    /\ Compared
    /\ Len(metrics.region_summary) < Len(metrics.segment_comparison)
    /\ \E k \in InputKeys : k[3] \notin DOMAIN age_map
    /\ \A i \in Rows(metrics.segment_comparison) :
          metrics.segment_comparison[i].combined_total.n > 0

IsExample == unified_df = ExampleBrand /\ unified_df_gen = ExampleGeneric

(* x = a / b *)
IsRatio(x, a, b) == x.k = "fin" /\ x.n * b = a * x.d

(* C7: on the example of the specification the segment row is brand 100,  *)
(* generic 50, combined 150, share 100/150, and the prescriber table holds *)
(* A: 60, 50, 110 and B: 40, 0, 40, share 1.                               *)
C7_ExampleScenario ==
    (IsExample /\ Compared) =>
        /\ Len(metrics.segment_comparison) = 1
        /\ LET row == metrics.segment_comparison[1]
           IN  /\ row.brand_total = Fin(100)
               /\ row.generic_total = Fin(50)
               /\ row.combined_total = Fin(150)
               /\ IsRatio(row.brand_share, 100, 150)
        /\ Len(metrics.prescriber_comparison) = 2
        /\ \E i, j \in Rows(metrics.prescriber_comparison) :
              LET a == metrics.prescriber_comparison[i]
                  b == metrics.prescriber_comparison[j]
              IN  /\ a.Prescriber = MapGet(presc_map, "A")
                  /\ a.brand_boites = Fin(60)
                  /\ a.generic_boites = Fin(50)
                  /\ a.combined_total = Fin(110)
                  /\ IsRatio(a.brand_share, 60, 110)
                  /\ b.Prescriber = MapGet(presc_map, "B")
                  /\ b.brand_boites = Fin(40)
                  /\ b.generic_boites = Fin(0)
                  /\ b.combined_total = Fin(40)
                  /\ b.brand_share = Fin(1)

C7_Witness == IsExample /\ Compared /\ pc = "returned"

----------------------------------------------------------------------------
(* Properties of the normalizers *)

(* C8: compare_brand_vs_generic computes its five tables when its         *)
(* arguments are normalizer outputs (load_unified's table, or the          *)
(* label-mapped tables of execute_query).                                  *)
C8_AggregatorAcceptsNormalized ==
    pc = "aggregated" => norm_metrics.raised = ""

(* C8 as amended: compare_brand_vs_generic computes its five tables on    *)
(* the raw-coded wide tables execute_query passes to it, and raises        *)
(* KeyError on a normalizer output, whose code columns are gone.           *)
C8_AggregatorTakesRawCoded ==
    /\ db.cip = "ok" /\ db.gen = "ok" => Compared
    /\ pc = "aggregated" => norm_metrics.raised = "KeyError"

C8_Witness ==
    /\ pc = "aggregated"
    /\ Compared
    /\ norm_metrics.raised = "KeyError"

ColumnSet(df) == {df.columns[i] : i \in 1..Len(df.columns)}

CodeColumns == {"BEN_REG", "sexe", "age", "CIP13", "GEN_NUM"}

(* C9: a table load_unified returns holds none of the columns BEN_REG,    *)
(* sexe, age, CIP13, GEN_NUM, and neither do the records of unified_df and *)
(* unified_df_gen in execute_query's payload.                              *)
C9_NoRawCodeColumns ==
    /\ loaded.raised = "" => ColumnSet(loaded.df) \cap CodeColumns = {}
    /\ payload.raised = "" =>
          /\ \A i \in Rows(payload.unified_df) :
                DOMAIN payload.unified_df[i] \cap CodeColumns = {}
          /\ \A i \in Rows(payload.unified_df_gen) :
                DOMAIN payload.unified_df_gen[i] \cap CodeColumns = {}

C9_Witness ==
    /\ pc = "loaded"
    /\ loaded.raised = ""
    /\ HasCol(src, "CIP13")
    /\ HasCol(src, "GEN_NUM")
    /\ Len(loaded.df.data) > 0

(* the count columns of a normalized table: total_boites and the          *)
(* prescriber columns                                                      *)
CountColumns(l) ==
    {i \in 1..Len(l.df.columns) :
        l.df.columns[i] = "total_boites" \/ Contains(l.prescribers, l.df.columns[i])}

(* C10: every row load_unified returns has total_boites >= 0 and every    *)
(* prescriber value >= 0, for every content of the source CSV.             *)
C10_CountsNonNegative ==
    loaded.raised = "" =>
        \A r \in 1..Len(loaded.df.data) : \A i \in CountColumns(loaded) :
            loaded.df.data[r][i] >= 0

----------------------------------------------------------------------------
(* Label resolution *)

(* label is what the lookup of code in map m with identity fallback gives *)
Resolves(m, code, label) ==
    IF code \in DOMAIN m THEN label = m[code] ELSE label = code

LoadReturned == loaded.raised = ""

(* the prescriber codes of a source file: its columns outside the key set *)
SourcePrescribers ==
    SelectSeq(src.columns, LAMBDA c : c \notin CodeColumns \cup {"total_boites"})

ResolvesSegment(k, row) ==
    /\ Resolves(region_map, k[1], row.Region)
    /\ Resolves(sex_map, k[2], row.Sex)
    /\ Resolves(age_map, k[3], row.Age)

(* C11: in the table load_unified returns, the Region, Sex, Age and       *)
(* Medication cells of a row and the prescriber column names are the       *)
(* mapped label of the source code when the lookup map has the code, and   *)
(* the code itself when it has not; the rows of segment_comparison and of  *)
(* prescriber_comparison carry exactly the labels so resolved of the keys  *)
(* of the inputs.                                                          *)
C11_LabelsWithIdentityFallback ==
    /\ LoadReturned =>
          /\ \A r \in 1..Len(src.data) :
                /\ Resolves(region_map, Cell(src, r, "BEN_REG"),
                            Cell(loaded.df, r, "Region"))
                /\ Resolves(sex_map, Cell(src, r, "sexe"), Cell(loaded.df, r, "Sex"))
                /\ Resolves(age_map, Cell(src, r, "age"), Cell(loaded.df, r, "Age"))
                /\ key_col # "GEN_NUM" =>
                      Resolves(cpi_map, Cell(src, r, "CIP13"),
                               Cell(loaded.df, r, "Medication"))
          /\ Len(loaded.prescribers) = Len(SourcePrescribers)
          /\ \A i \in 1..Len(loaded.prescribers) :
                /\ Resolves(presc_map, SourcePrescribers[i], loaded.prescribers[i])
                /\ HasCol(loaded.df, loaded.prescribers[i])
    /\ Compared =>
          /\ \A i \in Rows(metrics.segment_comparison) :
                \E k \in InputKeys : ResolvesSegment(k, metrics.segment_comparison[i])
          /\ \A k \in InputKeys :
                \E i \in Rows(metrics.segment_comparison) :
                    ResolvesSegment(k, metrics.segment_comparison[i])
          /\ \A i \in Rows(metrics.prescriber_comparison) :
                \E k \in InputPrescKeys :
                    /\ ResolvesSegment(k.seg, metrics.prescriber_comparison[i])
                    /\ Resolves(presc_map, k.psp,
                                metrics.prescriber_comparison[i].Prescriber)
          /\ \A k \in InputPrescKeys :
                \E i \in Rows(metrics.prescriber_comparison) :
                    /\ ResolvesSegment(k.seg, metrics.prescriber_comparison[i])
                    /\ Resolves(presc_map, k.psp,
                                metrics.prescriber_comparison[i].Prescriber)

(* a file with a region that has a label and one that has none, and a     *)
(* prescriber code that has none                                           *)
C11_Witness ==
    /\ pc = "loaded"
    /\ loaded.raised = ""
    /\ key_col = "CIP13"
    /\ \E r \in 1..Len(src.data) : Cell(src, r, "BEN_REG") \in DOMAIN region_map
    /\ \E r \in 1..Len(src.data) : Cell(src, r, "BEN_REG") \notin DOMAIN region_map
    /\ \E i \in 1..Len(SourcePrescribers) : SourcePrescribers[i] \notin DOMAIN presc_map

----------------------------------------------------------------------------
(* Failures *)

PayloadEmpty ==
    /\ payload.unified_df = <<>>
    /\ payload.unified_df_gen = <<>>
    /\ payload.metrics.segment_comparison = <<>>
    /\ payload.metrics.region_summary = <<>>
    /\ payload.metrics.age_summary = <<>>
    /\ payload.metrics.gender_summary = <<>>
    /\ payload.metrics.prescriber_comparison = <<>>

PayloadComplete ==
    /\ Len(payload.unified_df) = Len(unified_df.data)
    /\ Len(payload.unified_df_gen) = Len(unified_df_gen.data)
    /\ Len(payload.metrics.segment_comparison) > 0
    /\ Len(payload.metrics.region_summary) > 0
    /\ Len(payload.metrics.age_summary) > 0
    /\ Len(payload.metrics.gender_summary) > 0
    /\ Len(payload.metrics.prescriber_comparison) > 0

(* C12: when the brand SELECT or the generic SELECT fails, execute_query  *)
(* raises and returns none of its tables; what it returns is the complete  *)
(* payload of two tables and five metrics tables, after both SELECTs       *)
(* succeeded.                                                              *)
C12_QueryFailureAborts ==
    /\ (db.cip = "error" \/ db.gen = "error") =>
          /\ pc = "aborted"
          /\ payload.raised = "Exception"
          /\ PayloadEmpty
    /\ payload.raised \notin {"", "none"} => PayloadEmpty
    /\ payload.raised = "" =>
          /\ db.cip = "ok"
          /\ db.gen = "ok"
          /\ PayloadComplete

(* the brand SELECT succeeded and the generic SELECT failed *)
C12_Witness ==
    /\ pc = "aborted"
    /\ db.cip = "ok"
    /\ db.gen = "error"
    /\ Len(unified_df.data) > 0

NoProductKey(df) == ~HasCol(df, "CIP13") /\ ~HasCol(df, "GEN_NUM")

(* C13: load_unified raises and returns no table for a file that has      *)
(* neither CIP13 nor GEN_NUM, whatever key_col is; on a table with neither *)
(* column prepare_unified raises KeyError and compare_brand_vs_generic     *)
(* returns no table.                                                       *)
C13_MissingProductKeyIsFatal ==
    /\ (pc \in {"loaded", "loaded_app", "loaded_again"} /\ NoProductKey(src)) =>
          /\ loaded.raised \in {"KeyError", "IntCastingNaNError"}
          /\ loaded.df = NoDF
          /\ loaded.prescribers = <<>>
    /\ (pc = "aggregated" /\ src # NoDF /\ NoProductKey(loaded.df)) =>
          /\ prepare_unified(loaded.df, "brand").raised = "KeyError"
          /\ prepare_unified(loaded.df, "generic").raised = "KeyError"
          /\ norm_metrics = NoMetrics("KeyError")

C13_Witness ==
    /\ pc = "loaded"
    /\ key_col = "GEN_NUM"
    /\ NoProductKey(src)
    /\ Len(src.data) > 0
    /\ loaded.raised = "KeyError"

----------------------------------------------------------------------------
(* The product label *)

(* the product-label columns of a table, in order *)
ProductLabelCols(df) ==
    SelectSeq(df.columns, LAMBDA c : c \in {"Medication", "Generic"})

Loaded == pc \in {"loaded", "loaded_app"}

----------------------------------------------------------------------------
(* Determinism *)

----------------------------------------------------------------------------
(* Sums *)

(* sum of total_boites over the rows of a wide table whose segment has    *)
(* the labels L                                                            *)
InputTotal(df, L) ==
    LET g == SelectSeq(df.data,
                       LAMBDA row : LabelsOf(<<row[ColIdx(df, "BEN_REG")],
                                               row[ColIdx(df, "sexe")],
                                               row[ColIdx(df, "age")]>>) = L)
    IN  SumSeq([j \in 1..Len(g) |-> g[j][ColIdx(df, "total_boites")]])

SegmentRowsOf(L) ==
    SelectSeq(metrics.segment_comparison, LAMBDA x : RowLabels(x) = L)

(* C16: the segment_comparison rows of a key have as brand_total the sum  *)
(* of total_boites over the brand rows of that key, 0 when there is none,  *)
(* and as generic_total the same sum over the generic rows, however many   *)
(* product rows the key has.  (The returned rows carry labels; the keys    *)
(* of the inputs have pairwise different label triples.)                   *)
C16_TotalsArePerKeySums ==
    Compared =>
        \A k \in InputKeys :
            LET g == SegmentRowsOf(LabelsOf(k))
            IN  /\ \A l \in InputKeys : LabelsOf(l) = LabelsOf(k) => l = k
                /\ Len(g) = 1
                /\ g[1].brand_total = Fin(InputTotal(unified_df, LabelsOf(k)))
                /\ g[1].generic_total = Fin(InputTotal(unified_df_gen, LabelsOf(k)))

(* a key with two brand rows that count, and a key without brand row *)
C16_Witness ==
    /\ Compared
    /\ \E r, q \in 1..Len(unified_df.data) :
          /\ r # q
          /\ SegKey(unified_df, r) = SegKey(unified_df, q)
          /\ Cell(unified_df, r, "total_boites") > 0
          /\ Cell(unified_df, q, "total_boites") > 0
    /\ \E k \in InputKeys :
          \A r \in 1..Len(unified_df.data) : SegKey(unified_df, r) # k

(* the summary table of a dimension *)
SummaryOf(dim) ==
    CASE dim = "Region" -> metrics.region_summary
      [] dim = "Age" -> metrics.age_summary
      [] dim = "Sex" -> metrics.gender_summary

Dimensions == {"Region", "Age", "Sex"}

(* the segment_comparison rows carrying label l in dimension dim *)
SegmentRowsWith(dim, l) ==
    SelectSeq(metrics.segment_comparison, LAMBDA x : LabelOf(x, dim) = l)

(* C17: each of region_summary, age_summary and gender_summary has one    *)
(* row per distinct label of its dimension in segment_comparison, and the  *)
(* row's brand_total and generic_total are the sums over the               *)
(* segment_comparison rows carrying the label; segments of different       *)
(* codes with one label are summed into one row.                           *)
C17_OneSummaryRowPerLabel ==
    Compared =>
        \A dim \in Dimensions :
            LET t == SummaryOf(dim)
            IN  /\ \A i, j \in Rows(t) : t[i].label = t[j].label => i = j
                /\ {t[i].label : i \in Rows(t)}
                      = {LabelOf(metrics.segment_comparison[i], dim) :
                            i \in Rows(metrics.segment_comparison)}
                /\ \A i \in Rows(t) :
                      LET g == SegmentRowsWith(dim, t[i].label)
                      IN  /\ t[i].brand_total
                                = Fin(SumSeq([j \in 1..Len(g) |-> g[j].brand_total.n]))
                          /\ t[i].generic_total
                                = Fin(SumSeq([j \in 1..Len(g) |-> g[j].generic_total.n]))

(* two segments of different region codes and one region label, both with *)
(* brand and generic volume                                                *)
C17_Witness ==
    /\ Compared
    /\ Len(metrics.region_summary) = 1
    /\ Len(metrics.segment_comparison) = 2
    /\ \A i \in Rows(metrics.segment_comparison) :
          metrics.segment_comparison[i].brand_total.n > 0
    /\ \E i \in Rows(metrics.segment_comparison) :
          metrics.segment_comparison[i].generic_total.n > 0

(* C18: in every row of the three summaries combined_total is the row's   *)
(* brand_total + generic_total and brand_share is the row's brand_total    *)
(* divided by that combined_total (not a number when it is 0), not a       *)
(* function of the brand_share values of the segments.                     *)
C18_ShareFromRolledUpSums ==
    Compared =>
        \A dim \in Dimensions :
            \A i \in Rows(SummaryOf(dim)) :
                LET row == SummaryOf(dim)[i]
                IN  /\ row.combined_total
                          = Fin(row.brand_total.n + row.generic_total.n)
                    /\ row.combined_total.n # 0 =>
                          IsRatio(row.brand_share, row.brand_total.n,
                                  row.combined_total.n)
                    /\ row.combined_total.n = 0 => row.brand_share.k # "fin"

(* a region row rolled up from two segments whose brand_share is neither  *)
(* segment's share nor their mean                                          *)
C18_Witness ==
    /\ Compared
    /\ Len(metrics.region_summary) = 1
    /\ Len(metrics.segment_comparison) = 2
    /\ LET a == metrics.segment_comparison[1].brand_share
           b == metrics.segment_comparison[2].brand_share
           c == metrics.region_summary[1].brand_share
       IN  /\ a.k = "fin" /\ b.k = "fin" /\ c.k = "fin"
           /\ c # a
           /\ c # b
           /\ (a.n * b.d + b.n * a.d) * c.d # 2 * a.d * b.d * c.n

----------------------------------------------------------------------------
(* Coercion and prescriber columns *)

(* the integer a cell text stands for: the integer literal's value, 0 for *)
(* any other text                                                          *)
LiteralOrZero(s) ==
    IF AllDigits(s) THEN Decimal(s)
    ELSE IF s # <<>> /\ Head(s) = "-" /\ AllDigits(Tail(s)) THEN -Decimal(Tail(s))
    ELSE 0

(* C19: load_unified never raises on the content of a numeric cell, and   *)
(* in the table it returns total_boites and the prescriber cells are the   *)
(* integer literal of the source cell, or 0 when the cell is empty or no   *)
(* number.                                                                 *)
C19_CoercionNeverRaises ==
    /\ loaded.raised # "IntCastingNaNError"
    /\ loaded.raised = "" =>
          \A r \in 1..Len(src.data) :
              /\ Cell(loaded.df, r, "total_boites")
                    = LiteralOrZero(Cell(src, r, "total_boites"))
              /\ \A i \in 1..Len(SourcePrescribers) :
                    Cell(loaded.df, r, loaded.prescribers[i])
                        = LiteralOrZero(Cell(src, r, SourcePrescribers[i]))

ProductCodeColumns == {"CIP13", "GEN_NUM"}

FixedKeySet == {"BEN_REG", "sexe", "age", "CIP13", "GEN_NUM", "total_boites"}

(* C20: the columns load_unified coerces as prescriber columns are the    *)
(* columns of the file outside {BEN_REG, sexe, age, CIP13, GEN_NUM,        *)
(* total_boites}, in either copy of load_unified; neither CIP13 nor        *)
(* GEN_NUM is coerced, relabelled as a prescriber or melted into           *)
(* prescriber_comparison.                                                  *)
C20_ProductCodesNotPrescribers ==
    /\ loaded.raised = "" =>
          /\ {loaded.prescriber_cols[i] : i \in 1..Len(loaded.prescriber_cols)}
                = ColumnSet(src) \ FixedKeySet
          /\ \A i \in 1..Len(loaded.prescribers) :
                loaded.prescribers[i] \notin ProductCodeColumns
    /\ Compared =>
          \A i \in Rows(metrics.prescriber_comparison) :
              metrics.prescriber_comparison[i].Prescriber \notin ProductCodeColumns

----------------------------------------------------------------------------
(* Product display and prescriber relabelling *)

(* C21: in the table load_unified returns for key_col GEN_NUM the Generic *)
(* cell of every row is the row's GEN_NUM text as read, GEN_NUM having     *)
(* gone through no numeric coercion; for key_col CIP13 the Medication cell *)
(* is the product-map label of the row's CIP13, the code when unmapped.    *)
C21_ProductDisplay ==
    LoadReturned =>
        /\ key_col = "GEN_NUM" =>
              /\ ~Contains(loaded.prescriber_cols, "GEN_NUM")
              /\ \A r \in 1..Len(src.data) :
                    Cell(loaded.df, r, "Generic") = Cell(src, r, "GEN_NUM")
        /\ key_col # "GEN_NUM" =>
              \A r \in 1..Len(src.data) :
                  Resolves(cpi_map, Cell(src, r, "CIP13"),
                           Cell(loaded.df, r, "Medication"))

(* the positions of the prescriber columns of a file, in order *)
SourcePrescriberIdx ==
    SelectSeq([i \in 1..Len(src.columns) |-> i],
              LAMBDA i : src.columns[i] \notin CodeColumns \cup {"total_boites"})

(* the positions of the columns of the loaded table outside core *)
LoadedPrescriberIdx ==
    SelectSeq([i \in 1..Len(loaded.df.columns) |-> i],
              LAMBDA i : loaded.df.columns[i] \notin
                            {"Region", "Sex", "Age", loaded.display, "total_boites"})

(* C22: the table load_unified returns has one prescriber column per      *)
(* prescriber column of the file, in the file's order, named by the label  *)
(* of its code and holding the coerced cells of its own source column; the *)
(* prescriber list names them in the same order.  Columns whose codes      *)
(* share a label are both there under the one name.                        *)
C22_RelabelKeepsEveryColumn ==
    LoadReturned =>
        /\ Len(LoadedPrescriberIdx) = Len(SourcePrescriberIdx)
        /\ Len(loaded.prescribers) = Len(SourcePrescriberIdx)
        /\ \A i \in 1..Len(SourcePrescriberIdx) :
              /\ loaded.df.columns[LoadedPrescriberIdx[i]]
                    = MapGet(presc_map, src.columns[SourcePrescriberIdx[i]])
              /\ loaded.prescribers[i]
                    = MapGet(presc_map, src.columns[SourcePrescriberIdx[i]])
              /\ \A r \in 1..Len(src.data) :
                    loaded.df.data[r][LoadedPrescriberIdx[i]]
                        = LiteralOrZero(src.data[r][SourcePrescriberIdx[i]])

(* a file whose columns A and C got the one label and differ in a row *)
C22_Witness ==
    /\ pc = "loaded"
    /\ loaded.raised = ""
    /\ Len(LoadedPrescriberIdx) = 2
    /\ loaded.df.columns[LoadedPrescriberIdx[1]] = loaded.df.columns[LoadedPrescriberIdx[2]]
    /\ \E r \in 1..Len(src.data) :
          loaded.df.data[r][LoadedPrescriberIdx[1]]
              # loaded.df.data[r][LoadedPrescriberIdx[2]]

----------------------------------------------------------------------------
(* Order of the rows *)

(* brand_share never decreases down the table, NaN coming last *)
IsAscending(t) ==
    \A i, j \in 1..Len(t) :
        i < j =>
            IF t[i].brand_share.k = "nan" THEN t[j].brand_share.k = "nan"
            ELSE \/ t[j].brand_share.k = "nan"
                 \/ ~NumLess(t[j].brand_share, t[i].brand_share)

(* C23: the five tables compare_brand_vs_generic returns are in ascending *)
(* order of brand_share, and they are the tables a stable sort gives: rows *)
(* of equal brand_share in the order they had before the sort.             *)
C23_SortedStable ==
    Compared =>
        /\ IsAscending(metrics.segment_comparison)
        /\ IsAscending(metrics.region_summary)
        /\ IsAscending(metrics.age_summary)
        /\ IsAscending(metrics.gender_summary)
        /\ IsAscending(metrics.prescriber_comparison)
        /\ metrics = compare_brand_vs_generic(unified_df, unified_df_gen, "keep")

----------------------------------------------------------------------------
(* Conservation at prescriber level *)

(* sum of prescriber column c over the rows of a wide table whose segment *)
(* has the labels L; 0 when the table has no such column                   *)
InputPrescTotal(df, L, c) ==
    IF ~HasCol(df, c) THEN 0
    ELSE LET g == SelectSeq(df.data,
                            LAMBDA row : LabelsOf(<<row[ColIdx(df, "BEN_REG")],
                                                    row[ColIdx(df, "sexe")],
                                                    row[ColIdx(df, "age")]>>) = L)
         IN  SumSeq([j \in 1..Len(g) |-> g[j][ColIdx(df, c)]])

(* the prescriber_comparison rows of the key k *)
PrescriberRowsOf(k) ==
    SelectSeq(metrics.prescriber_comparison,
              LAMBDA x : /\ RowLabels(x) = LabelsOf(k.seg)
                         /\ x.Prescriber = MapGet(presc_map, k.psp))

(* C25: for every (BEN_REG, sexe, age, prescriber) key the brand_boites   *)
(* of its prescriber_comparison rows add up to the prescriber's column     *)
(* summed over the brand rows of the segment, and the generic_boites to    *)
(* the same sum over the generic rows, however many product rows the       *)
(* segment has on each side.                                               *)
C25_PrescriberVolumeConserved ==
    Compared =>
        \A k \in InputPrescKeys :
            LET g == PrescriberRowsOf(k)
            IN  /\ SumSeq([j \in 1..Len(g) |-> g[j].brand_boites.n])
                      = InputPrescTotal(unified_df, LabelsOf(k.seg), k.psp)
                /\ SumSeq([j \in 1..Len(g) |-> g[j].generic_boites.n])
                      = InputPrescTotal(unified_df_gen, LabelsOf(k.seg), k.psp)

----------------------------------------------------------------------------
(* The response of /api/v1/execute-query *)

AllValid(t) == \A i \in Rows(t) : ValidMetricsRecord(t[i])

(* C26: every record of the five metrics tables of execute_query's        *)
(* payload has the fields brand_total, generic_total, combined_total and   *)
(* brand_share, each holding a number, as MetricsRecord requires.          *)
C26_MetricsMeetResponseModel ==
    payload.raised = "" =>
        /\ AllValid(payload.metrics.segment_comparison)
        /\ AllValid(payload.metrics.region_summary)
        /\ AllValid(payload.metrics.age_summary)
        /\ AllValid(payload.metrics.gender_summary)
        /\ AllValid(payload.metrics.prescriber_comparison)

----------------------------------------------------------------------------
(* The database connection *)

CallEnded == conn.pos \in {"returned", "raised"}

(* C27: when a call of AzureSQLConnection.execute_query has returned or   *)
(* raised, the connection it opened is closed.                             *)
C27_ConnectionsClosed ==
    CallEnded => conn.held = 0

----------------------------------------------------------------------------
(* The wide table and its fact rows *)

(* the wide table the query of key_col gave *)
Wide == IF key_col = "CIP13" THEN unified_df ELSE unified_df_gen

WideKey(row) == SubSeq(row, 1, 4)

(* the sum of BOITES over the fact rows of key k and prescriber p, None    *)
(* counting as 0                                                           *)
RECURSIVE BoxesOfFacts(_, _, _)
BoxesOfFacts(f, k, p) ==
    IF f = <<>> THEN 0
    ELSE (IF Head(f).key = k /\ Head(f).psp = p /\ Head(f).boites.k = "fin"
          THEN Head(f).boites.n ELSE 0) + BoxesOfFacts(Tail(f), k, p)

AllWithPrescriber(k) ==
    \A i \in 1..Len(facts) : facts[i].key = k => facts[i].psp # "null"

(* C28: in the wide table built from the fact rows, each prescriber column *)
(* of a key's row is the sum of BOITES of the key's fact rows for that     *)
(* prescriber, 0 when it has none, and total_boites is the sum of the      *)
(* prescriber columns when every fact row of the key has a prescriber.     *)
C28_WideFromFacts ==
    pc = "wide" =>
        \A r \in 1..Len(Wide.data) :
            /\ \A c \in 6..Len(Wide.columns) :
                   Wide.data[r][c] = BoxesOfFacts(facts, WideKey(Wide.data[r]),
                                                  Wide.columns[c])
            /\ AllWithPrescriber(WideKey(Wide.data[r])) =>
                   Wide.data[r][5] = SumSeq(SubSeq(Wide.data[r], 6, Len(Wide.columns)))

(* a wide row with a prescriber column summed from two fact rows and a     *)
(* prescriber column filled with 0                                         *)
C28_Witness ==
    /\ pc = "wide"
    /\ Len(Wide.columns) = 7
    /\ \E r \in 1..Len(Wide.data) :
           /\ Wide.data[r][6] = 3 * MaxBoxes
           /\ Wide.data[r][7] = 0
           /\ Wide.data[r][5] = 3 * MaxBoxes
           /\ Cardinality({i \in 1..Len(facts) : facts[i].key = WideKey(Wide.data[r])}) = 2

----------------------------------------------------------------------------
(* The page Sanofi vs generics *)

PageShown == pc = "shown" /\ served.raised = ""

(* C29: every row of the merged long table has Boxes_Generic >= 0,         *)
(* Boxes_Sanofi >= 0 and Boxes_Total > 0, and so a Sanofi_Share from 0 to  *)
(* 1.                                                                      *)
C29_LongRowsPositive ==
    PageShown =>
        \A i \in 1..Len(served.long) :
            /\ served.long[i].Boxes_Generic.k = "fin"
            /\ served.long[i].Boxes_Sanofi.k = "fin"
            /\ served.long[i].Boxes_Generic.n >= 0
            /\ served.long[i].Boxes_Sanofi.n >= 0
            /\ served.long[i].Boxes_Total.k = "fin"
            /\ served.long[i].Boxes_Total.n > 0
            /\ served.long[i].Sanofi_Share.k = "fin"
            /\ ~NumLess(served.long[i].Sanofi_Share, Fin(0))
            /\ ~NumLess(Fin(1), served.long[i].Sanofi_Share)

(* a file with a negative cell was loaded and the merged table has a row   *)
(* of each side only                                                       *)
C29_Witness ==
    /\ PageShown
    /\ \E r \in 1..Len(files.generic.data) : files.generic.data[r][6] = <<"-", "1">>
    /\ \E i \in 1..Len(served.long) : served.long[i].Boxes_Generic = Fin(0)
    /\ \E i \in 1..Len(served.long) : served.long[i].Boxes_Sanofi = Fin(0)

(* the sum of the positive prescriber cells of the rows of a file whose    *)
(* label of dimension dim is label                                         *)
PositiveOf(df, dim, label) ==
    SumSeq([r \in 1..Len(df.data) |->
               IF /\ DimOf([key |-> MergeKey(PageLabels(df, r),
                                             MapGet(presc_map, df.columns[6]))], dim) = label
                  /\ CoerceInt(df.data[r][6]) > 0
               THEN CoerceInt(df.data[r][6]) ELSE 0])

(* C30: in aggregate(long, dim) the Boxes_Sanofi and Boxes_Generic of a    *)
(* label are the sums of the positive prescriber cells of the source rows  *)
(* with that label, each cell counted once.                                *)
C30_AggregateCountsOnce ==
    PageShown =>
        \A i \in 1..Len(served.agg) :
            /\ served.agg[i].Boxes_Generic =
                   Fin(PositiveOf(files.generic, served.view, served.agg[i].label))
            /\ served.agg[i].Boxes_Sanofi =
                   Fin(PositiveOf(files.sanofi, served.view, served.agg[i].label))

----------------------------------------------------------------------------
(* The cache of the loaders *)

(* C24: a run never serves a cached table after its source file changed:  *)
(* what a run of the page serves as load_long(path, kind) is derived from  *)
(* the content the file has at the run, and so is what a run of            *)
(* streamlit_app.py serves as load_data().                                 *)
C24_CacheFresh ==
    [][/\ pc' = "shown" /\ pc = "page" /\ served'.raised = "" =>
            /\ served'.long_generic = load_long(files.generic, "generic").rows
            /\ served'.long_sanofi = load_long(files.sanofi, "sanofi").rows
       /\ pc' = "charted" /\ pc = "page" =>
            served'.data = load_data(files.cost).rows]_vars

====
